---- MODULE Spec2Model ----
(***************************************************************************)
(* Model of trustbloc/logutil-go: the module level registry, the level    *)
(* spec parser/serialiser and the level-gated logger of package log.      *)
(*                                                                         *)
(* A Go string is a finite sequence of symbols.  The two separator        *)
(* characters of the level spec, ":" and "=", are symbols of their own;   *)
(* every other symbol stands for a run of ordinary characters (a word).   *)
(* The empty string is the empty sequence.                                 *)
(***************************************************************************)
EXTENDS Integers, Sequences, FiniteSets, TLC

VARIABLES
    heap,      \* the Go heap of map objects: reference -> (module -> Level)
    setLog,    \* history: module -> level of the latest levels.Set call for it
    snap,      \* reference the caller holds from its latest All() call, 0 if none
    held,      \* number of operations done while the caller holds that reference
    pc,        \* the calling goroutine: "idle", "returned" or "exited"
    last,      \* the call that has just returned, with its arguments and results
    logger,    \* the *Log in use: its module
    stdOut,    \* records written to the logger's low-severity sink
    stdErr,    \* records written to the logger's high-severity sink
    rwmutex,   \* l.rwmutex: the number of read locks held and whether the write lock is held
    gor,       \* the goroutines that call Set, Get and All concurrently: position and locals
    ctxs,      \* the context.Context values that exist: reference -> baggage and trace ID
    cidLast,   \* the latest call of package correlationid, with its arguments and results
    spanAttr,  \* trace ID of a span -> its dts.correlation_id attribute
    mwLast,    \* the latest request a middleware has served, and what its handler was given
    rtLast,    \* the latest RoundTrip of a Transport: the request before and after, what was forwarded
    applying   \* the SetSpec call under way beside a reader, and what the reader saw

vars ==
    <<heap, setLog, snap, held, pc, last, logger, stdOut, stdErr, rwmutex, gor,
      ctxs, cidLast, spanAttr, mwLast, rtLast, applying>>
regVars == <<heap, setLog, snap, held>>
logVars == <<logger, stdOut, stdErr>>
concVars == <<rwmutex, gor>>
cidVars == <<ctxs, cidLast, spanAttr, mwLast, rtLast>>

-----------------------------------------------------------------------------
(* Bounds of the model *)

MaxParts == 2      \* a level spec given to SetSpec has at most this many ":"-separated parts
MaxHeld == 1       \* operations performed while a snapshot returned by All() is held
MaxSink == 2       \* a log call is made only while the sinks hold fewer records than this

-----------------------------------------------------------------------------
(* Levels: package log, "Log levels" const block; the numbers are zapcore's *)

DEBUG == -1
INFO == 0
WARNING == 1
ERROR == 2
PANIC == 4
FATAL == 5

minLogLevel == DEBUG
defaultLevel == INFO

Levels == {DEBUG, INFO, WARNING, ERROR, PANIC, FATAL}

\* the severities in ascending order, DEBUG < INFO < WARNING < ERROR < PANIC < FATAL
LevelOrder == <<DEBUG, INFO, WARNING, ERROR, PANIC, FATAL>>

defaultModuleName == <<>>

Modules == {defaultModuleName, <<"a">>, <<"b">>}

nil == "nil"
ErrInvalidLevel == "logger: invalid log level"
ErrMultipleDefaults == "multiple default values found"

-----------------------------------------------------------------------------
(* Level.String and ParseLevel *)

LevelString(l) ==
    CASE l = DEBUG -> <<"DEBUG">>
      [] l = INFO -> <<"INFO">>
      [] l = WARNING -> <<"WARN">>
      [] l = ERROR -> <<"ERROR">>
      [] l = PANIC -> <<"PANIC">>
      [] l = FATAL -> <<"FATAL">>
      [] OTHER -> <<"Level(n)">>

\* variant of ParseLevel: the capitalised names are levels as well
ParseLevelAnyCase(level) ==
    CASE level \in {<<"DEBUG">>, <<"debug">>, <<"Debug">>} -> [level |-> DEBUG, err |-> nil]
      [] level \in {<<"INFO">>, <<"info">>, <<"Info">>} -> [level |-> INFO, err |-> nil]
      [] level \in {<<"WARN">>, <<"warn">>, <<"Warn">>,
                    <<"WARNING">>, <<"warning">>, <<"Warning">>} ->
            [level |-> WARNING, err |-> nil]
      [] level \in {<<"ERROR">>, <<"error">>, <<"Error">>} -> [level |-> ERROR, err |-> nil]
      [] level \in {<<"PANIC">>, <<"panic">>, <<"Panic">>} -> [level |-> PANIC, err |-> nil]
      [] level \in {<<"FATAL">>, <<"fatal">>, <<"Fatal">>} -> [level |-> FATAL, err |-> nil]
      [] OTHER -> [level |-> ERROR, err |-> ErrInvalidLevel]

ParseLevel(level) ==
    CASE level \in {<<"DEBUG">>, <<"debug">>} -> [level |-> DEBUG, err |-> nil]
      [] level \in {<<"INFO">>, <<"info">>} -> [level |-> INFO, err |-> nil]
      [] level \in {<<"WARN">>, <<"warn">>, <<"WARNING">>, <<"warning">>} ->
            [level |-> WARNING, err |-> nil]
      [] level \in {<<"ERROR">>, <<"error">>} -> [level |-> ERROR, err |-> nil]
      [] level \in {<<"PANIC">>, <<"panic">>} -> [level |-> PANIC, err |-> nil]
      [] level \in {<<"FATAL">>, <<"fatal">>} -> [level |-> FATAL, err |-> nil]
      [] OTHER -> [level |-> ERROR, err |-> ErrInvalidLevel]

-----------------------------------------------------------------------------
(* moduleLevels: a map object on the heap, guarded by rwmutex *)

LevelsRef == 1     \* the reference stored in l.levels by newModuleLevels
CopyRef == 2       \* the reference make() returns inside All

EmptyMap == [m \in {} |-> INFO]

newModuleLevels == [r \in {LevelsRef, CopyRef} |-> EmptyMap]

\* m[key] = value on a Go map
MapStore(map, key, value) ==
    [k \in DOMAIN map \cup {key} |-> IF k = key THEN value ELSE map[k]]

\* variant of Get without the fallback to the default module
GetInNoFallback(levels, module) ==
    IF module \in DOMAIN levels THEN levels[module] ELSE defaultLevel

\* moduleLevels.Get on the map l.levels
GetIn(levels, module) ==
    IF module \in DOMAIN levels
    THEN levels[module]
    ELSE IF defaultModuleName \in DOMAIN levels
         THEN levels[defaultModuleName]
         ELSE defaultLevel

Get(h, module) == GetIn(h[LevelsRef], module)

\* variant of Set: the map is replaced by one that holds the new entry only
SetReplacing(h, module, level) ==
    [h EXCEPT ![LevelsRef] = [k \in {module} |-> level]]

\* moduleLevels.Set: l.levels[module] = level under the write lock
Set(h, module, level) ==
    [h EXCEPT ![LevelsRef] = MapStore(h[LevelsRef], module, level)]

SetDefault(h, level) == Set(h, defaultModuleName, level)

\* variant of isEnabled that compares with > instead of >=
isEnabledStrict(h, module, level) == level > Get(h, module)

isEnabled(h, module, level) == level >= Get(h, module)

\* variant of All that returns l.levels itself
AllAliased(h) == [ref |-> LevelsRef, heap |-> h]

\* moduleLevels.All: a fresh map holding a copy of every entry

All(h) ==
    [ref |-> CopyRef,
     heap |-> [h EXCEPT ![CopyRef] = [module \in DOMAIN h[LevelsRef] |-> h[LevelsRef][module]]]]

-----------------------------------------------------------------------------
(* strings.ToUpper and strings.ToLower: symbol by symbol; a word is mapped  *)
(* to the word with every letter in the other case                          *)

UpperSymbol(c) ==
    CASE c = "a" -> "A" [] c = "b" -> "B" [] c = "c" -> "C"
      [] c = "d" -> "D" [] c = "e" -> "E" [] c = "f" -> "F"
      [] c \in {"debug", "Debug"} -> "DEBUG"
      [] c \in {"info", "Info"} -> "INFO"
      [] c \in {"warn", "Warn"} -> "WARN"
      [] c \in {"warning", "Warning"} -> "WARNING"
      [] c \in {"error", "Error"} -> "ERROR"
      [] c \in {"panic", "Panic"} -> "PANIC"
      [] c \in {"fatal", "Fatal"} -> "FATAL"
      [] OTHER -> c

LowerSymbol(c) ==
    CASE c = "A" -> "a" [] c = "B" -> "b" [] c = "C" -> "c"
      [] c = "D" -> "d" [] c = "E" -> "e" [] c = "F" -> "f"
      [] c \in {"DEBUG", "Debug"} -> "debug"
      [] c \in {"INFO", "Info"} -> "info"
      [] c \in {"WARN", "Warn"} -> "warn"
      [] c \in {"WARNING", "Warning"} -> "warning"
      [] c \in {"ERROR", "Error"} -> "error"
      [] c \in {"PANIC", "Panic"} -> "panic"
      [] c \in {"FATAL", "Fatal"} -> "fatal"
      [] c = "DE BUG" -> "de bug"
      [] OTHER -> c

ToUpper(s) == [i \in 1..Len(s) |-> UpperSymbol(s[i])]

ToLower(s) == [i \in 1..Len(s) |-> LowerSymbol(s[i])]

-----------------------------------------------------------------------------
(* strings.Contains and strings.Split for a one-character separator *)

Contains(s, sep) == \E i \in 1..Len(s) : s[i] = sep

RECURSIVE SplitFrom(_, _, _, _, _)
SplitFrom(s, sep, i, cur, acc) ==
    IF i > Len(s)
    THEN Append(acc, cur)
    ELSE IF s[i] = sep
         THEN SplitFrom(s, sep, i + 1, <<>>, Append(acc, cur))
         ELSE SplitFrom(s, sep, i + 1, Append(cur, s[i]), acc)

Split(s, sep) == SplitFrom(s, sep, 1, <<>>, <<>>)

-----------------------------------------------------------------------------
(* SetSpec *)

\* the loop of SetSpec over logLevelByModule, from part i on; it ends at the
\* first error, before any level has been set
RECURSIVE SetSpecParse(_, _, _, _)
SetSpecParse(logLevelByModule, i, defaultLogLevel, moduleLevelPairs) ==
    IF i > Len(logLevelByModule)
    THEN [err |-> nil, defaultLogLevel |-> defaultLogLevel,
          moduleLevelPairs |-> moduleLevelPairs]
    ELSE LET logLevelByModulePart == logLevelByModule[i] IN
         IF Contains(logLevelByModulePart, "=")
         THEN LET moduleAndLevelPair == Split(logLevelByModulePart, "=")
                  parsed == ParseLevel(moduleAndLevelPair[2])
              IN  IF parsed.err # nil
                  THEN [err |-> parsed.err, defaultLogLevel |-> defaultLogLevel,
                        moduleLevelPairs |-> moduleLevelPairs]
                  ELSE SetSpecParse(logLevelByModule, i + 1, defaultLogLevel,
                           Append(moduleLevelPairs,
                                  [module |-> moduleAndLevelPair[1],
                                   logLevel |-> parsed.level]))
         ELSE IF defaultLogLevel >= minLogLevel
              THEN [err |-> ErrMultipleDefaults, defaultLogLevel |-> defaultLogLevel,
                    moduleLevelPairs |-> moduleLevelPairs]
              ELSE LET parsed == ParseLevel(logLevelByModulePart)
                   IN  IF parsed.err # nil
                       THEN [err |-> parsed.err, defaultLogLevel |-> defaultLogLevel,
                             moduleLevelPairs |-> moduleLevelPairs]
                       ELSE SetSpecParse(logLevelByModule, i + 1, parsed.level,
                                         moduleLevelPairs)

\* variant of the calls below that leaves the default alone when the spec
\* has no bare token
SetSpecCallsKeepDefault(parsed) ==
    (IF parsed.defaultLogLevel >= minLogLevel
     THEN <<[module |-> defaultModuleName, logLevel |-> parsed.defaultLogLevel]>>
     ELSE <<>>)
    \o parsed.moduleLevelPairs

\* the levels.Set calls a successful SetSpec makes, in order: the default
\* first, then one per module=level pair
SetSpecCalls(parsed) ==
    <<[module |-> defaultModuleName,
       logLevel |-> IF parsed.defaultLogLevel >= minLogLevel
                    THEN parsed.defaultLogLevel
                    ELSE INFO]>>
    \o parsed.moduleLevelPairs

RECURSIVE SetEach(_, _, _)
SetEach(h, calls, i) ==
    IF i > Len(calls)
    THEN h
    ELSE SetEach(Set(h, calls[i].module, calls[i].logLevel), calls, i + 1)

\* variant of SetSpec that sets each level as soon as its part is parsed
RECURSIVE SetSpecEagerFrom(_, _, _, _, _)
SetSpecEagerFrom(h, logLevelByModule, i, defaultLogLevel, calls) ==
    IF i > Len(logLevelByModule)
    THEN [err |-> nil, heap |-> h, calls |-> calls]
    ELSE LET part == logLevelByModule[i] IN
         IF Contains(part, "=")
         THEN LET pair == Split(part, "=")
                  parsed == ParseLevel(pair[2])
              IN  IF parsed.err # nil
                  THEN [err |-> parsed.err, heap |-> h, calls |-> calls]
                  ELSE SetSpecEagerFrom(Set(h, pair[1], parsed.level), logLevelByModule,
                           i + 1, defaultLogLevel,
                           Append(calls, [module |-> pair[1], logLevel |-> parsed.level]))
         ELSE IF defaultLogLevel >= minLogLevel
              THEN [err |-> ErrMultipleDefaults, heap |-> h, calls |-> calls]
              ELSE LET parsed == ParseLevel(part)
                   IN  IF parsed.err # nil
                       THEN [err |-> parsed.err, heap |-> h, calls |-> calls]
                       ELSE SetSpecEagerFrom(Set(h, defaultModuleName, parsed.level),
                                logLevelByModule, i + 1, parsed.level,
                                Append(calls, [module |-> defaultModuleName,
                                               logLevel |-> parsed.level]))

SetSpecEager(h, spec) ==
    SetSpecEagerFrom(h, Split(spec, ":"), 1, minLogLevel - 1, <<>>)

\* SetSpec(spec): the error returned, the heap afterwards and the levels.Set
\* calls made
SetSpec(h, spec) ==
    LET parsed == SetSpecParse(Split(spec, ":"), 1, minLogLevel - 1, <<>>)
    IN  IF parsed.err # nil
        THEN [err |-> parsed.err, heap |-> h, calls |-> <<>>]
        ELSE [err |-> nil,
              heap |-> SetEach(h, SetSpecCalls(parsed), 1),
              calls |-> SetSpecCalls(parsed)]

-----------------------------------------------------------------------------
(* GetSpec *)

\* getAllLevels: the copy All() returns, copied once more
getAllLevels(h) ==
    LET r == All(h)
        metadataLevels == r.heap[r.ref]
    IN  [module \in DOMAIN metadataLevels |-> metadataLevels[module]]

\* the orders in which a range loop may visit the keys of a map
RangeOrders(map) ==
    {o \in [1..Cardinality(DOMAIN map) -> DOMAIN map] :
        \A i, j \in DOMAIN o : i # j => o[i] # o[j]}

RECURSIVE GetSpecLoop(_, _, _, _, _)
GetSpecLoop(levels, order, i, spec, defaultDebugLevel) ==
    IF i > Len(order)
    THEN spec \o defaultDebugLevel
    ELSE LET module == order[i]
             level == levels[module]
         IN  IF module = defaultModuleName
             THEN GetSpecLoop(levels, order, i + 1, spec, LevelString(level))
             ELSE GetSpecLoop(levels, order, i + 1,
                              spec \o module \o <<"=">> \o LevelString(level) \o <<":">>,
                              defaultDebugLevel)

\* GetSpec when the range loop visits the modules in the given order
GetSpec(h, order) == GetSpecLoop(getAllLevels(h), order, 1, <<>>, <<>>)

-----------------------------------------------------------------------------
(* The level specs given to SetSpec: up to MaxParts parts joined by ":" *)

SpecParts ==
    { <<"error">>,                        \* a bare level: the default
      <<"bogus">>,                        \* a bare token that is no level
      <<"a", "=", "debug">>,
      <<"a", "=", "PANIC">>,
      <<"b", "=", "bogus">>,              \* what follows "=" is no level
      <<"=", "fatal">>,                   \* the module name is empty
      <<"b", "=", "warn", "=", "x">> }    \* more than one "="

RECURSIVE Join(_, _)
Join(parts, i) ==
    IF i > Len(parts)
    THEN <<>>
    ELSE IF i = Len(parts)
         THEN parts[i]
         ELSE parts[i] \o <<":">> \o Join(parts, i + 1)

SpecStrings ==
    {Join(parts, 1) : parts \in UNION {[1..n -> SpecParts] : n \in 1..MaxParts}}

\* The strings given to ParseLevel: the level names and synonyms in lower case,
\* in upper case and capitalised, and the strings TestParseLevelError gives it
LevelStrings ==
    { <<"debug">>, <<"DEBUG">>, <<"Debug">>,
      <<"info">>, <<"INFO">>, <<"Info">>,
      <<"warn">>, <<"WARN">>, <<"Warn">>,
      <<"warning">>, <<"WARNING">>, <<"Warning">>,
      <<"error">>, <<"ERROR">>, <<"Error">>,
      <<"panic">>, <<"PANIC">>, <<"Panic">>,
      <<"fatal">>, <<"FATAL">>, <<"Fatal">>,
      <<>>, <<"D">>, <<"DE BUG">>, <<".">> }

-----------------------------------------------------------------------------
(* The caller: one call at a time; what the call was given and what it       *)
(* returned stay in `last` until the caller goes on                           *)

NoCall ==
    [op |-> "none", module |-> <<>>, level |-> INFO, spec |-> <<>>,
     err |-> nil, pre |-> EmptyMap, ofGetSpec |-> FALSE,
     ctx |-> FALSE, events |-> <<>>, preOut |-> <<>>, preErr |-> <<>>,
     span |-> [traceID |-> <<"00000000000000000000000000000000">>,
               spanID |-> <<"0000000000000000">>,
               parentSpanID |-> <<"0000000000000000">>],
     fields |-> {}]

Call(op, module, level, spec, err, pre, ofGetSpec) ==
    [NoCall EXCEPT !.op = op, !.module = module, !.level = level, !.spec = spec,
                   !.err = err, !.pre = pre, !.ofGetSpec = ofGetSpec]

\* the history of levels.Set calls after the given calls
RECURSIVE Logged(_, _, _)
Logged(log, calls, i) ==
    IF i > Len(calls)
    THEN log
    ELSE Logged(MapStore(log, calls[i].module, calls[i].logLevel), calls, i + 1)

\* SetLevel(module, level)
SetLevel(module, level) ==
    /\ pc = "idle"
    /\ heap' = Set(heap, module, level)
    /\ setLog' = MapStore(setLog, module, level)
    /\ last' = Call("SetLevel", module, level, <<>>, nil, heap[LevelsRef], FALSE)
    /\ pc' = "returned"
    /\ UNCHANGED <<snap, held, logVars, concVars, cidVars, applying>>

\* SetDefaultLevel(level)
SetDefaultLevel(level) ==
    /\ pc = "idle"
    /\ heap' = SetDefault(heap, level)
    /\ setLog' = MapStore(setLog, defaultModuleName, level)
    /\ last' = Call("SetDefaultLevel", defaultModuleName, level, <<>>, nil,
                    heap[LevelsRef], FALSE)
    /\ pc' = "returned"
    /\ UNCHANGED <<snap, held, logVars, concVars, cidVars, applying>>

\* ParseLevel(level): the string goes in `spec`, the results in `level` and `err`
ParseLevelCall(level) ==
    /\ pc = "idle"
    /\ \E r \in {ParseLevel(level)} :
          last' = Call("ParseLevel", <<>>, r.level, level, r.err, heap[LevelsRef], FALSE)
    /\ pc' = "returned"
    /\ UNCHANGED <<regVars, logVars, concVars, cidVars, applying>>

\* the body shared by the two ways SetSpec is called below
DoSetSpec(spec, ofGetSpec) ==
    \E r \in {SetSpec(heap, spec)} :
        /\ heap' = r.heap
        /\ setLog' = Logged(setLog, r.calls, 1)
        /\ last' = Call("SetSpec", <<>>, INFO, spec, r.err, heap[LevelsRef], ofGetSpec)
        /\ pc' = "returned"
        /\ UNCHANGED <<snap, held, logVars, concVars, cidVars, applying>>

\* SetSpec(spec) with a spec the caller wrote
SetSpecCall(spec) ==
    /\ pc = "idle"
    /\ DoSetSpec(spec, FALSE)

\* GetSpec(): the range loop visits the modules in some order
GetSpecCall ==
    /\ pc = "idle"
    /\ \E order \in RangeOrders(getAllLevels(heap)) :
          last' = Call("GetSpec", <<>>, INFO, GetSpec(heap, order), nil,
                       heap[LevelsRef], FALSE)
    /\ pc' = "returned"
    /\ UNCHANGED <<regVars, logVars, concVars, cidVars, applying>>

\* SetSpec(GetSpec()): the caller hands the spec it has just got back to SetSpec
SetSpecOfGetSpec ==
    /\ pc = "returned"
    /\ last.op = "GetSpec"
    /\ DoSetSpec(last.spec, TRUE)

\* levels.All(): the caller keeps the map it gets
AllCall ==
    /\ pc = "idle"
    /\ LET r == All(heap)
       IN  /\ heap' = r.heap
           /\ snap' = r.ref
    /\ held' = 0
    /\ last' = Call("All", <<>>, INFO, <<>>, nil, heap[LevelsRef], FALSE)
    /\ pc' = "returned"
    /\ UNCHANGED <<setLog, logVars, concVars, cidVars, applying>>

\* SetLevel(module, level) while the caller holds the map All() returned
SetLevelWhileHeld(module, level) ==
    /\ pc = "returned"
    /\ last.op = "All"
    /\ held < MaxHeld
    /\ heap' = Set(heap, module, level)
    /\ setLog' = MapStore(setLog, module, level)
    /\ held' = held + 1
    /\ UNCHANGED <<snap, pc, last, logVars, concVars, cidVars, applying>>

\* the caller stores into the map All() returned
StoreIntoSnapshot(module, level) ==
    /\ pc = "returned"
    /\ last.op = "All"
    /\ held < MaxHeld
    /\ heap' = [heap EXCEPT ![snap] = MapStore(heap[snap], module, level)]
    /\ held' = held + 1
    /\ UNCHANGED <<setLog, snap, pc, last, logVars, concVars, cidVars, applying>>

\* the caller goes on: the results of the call, and the map it held, are dropped
Return ==
    /\ pc = "returned"
    /\ pc' = "idle"
    /\ last' = NoCall
    /\ snap' = 0
    /\ held' = 0
    /\ heap' = [heap EXCEPT ![CopyRef] = EmptyMap]
    /\ UNCHANGED <<setLog, logVars, concVars, cidVars, applying>>

-----------------------------------------------------------------------------
(* Package correlationid: the correlation ID kept in the baggage of a        *)
(* context.  A context is an immutable value with an identity: a reference   *)
(* into `ctxs`; the nil context is the reference 0.                           *)

MaxCalls == 2      \* calls of package correlationid made one after another
MaxLen == 3        \* the lengths given to GenerateNewFixedLengthIfNotFound are 0..MaxLen
MaxRand == 1       \* the random source yields one of MaxRand + 1 byte streams

CorrelationIDHeader == "X-Correlation-ID"
CorrelationIDAttribute == "dts.correlation_id"

nilTraceID == <<"00000000000000000000000000000000">>
correlationIDLength == 8

\* the trace IDs of the spans in use
TraceID1 == <<"4bf92f3577b34da6a3ce929d0e0e4736">>
TraceID2 == <<"0af7651916cd43dd8448eb211c80319c">>

ErrRead == "rand: read failed"
ErrGenerate == "generate correlation ID: rand: read failed"
ErrInvalidValue == "baggage: invalid value"
ErrCreateMember == "create baggage member: baggage: invalid value"
ErrBaggageBytes == "baggage: too many bytes"
ErrCreateBaggage == "create baggage: baggage: too many bytes"

\* hex.EncodeToString: two lower-case hexadecimal digits for every byte
HexDigits ==
    <<"0", "1", "2", "3", "4", "5", "6", "7", "8", "9", "a", "b", "c", "d", "e", "f">>

EncodeToString(bytes) ==
    [i \in 1..(2 * Len(bytes)) |->
        IF i % 2 = 1
        THEN HexDigits[(bytes[(i + 1) \div 2] \div 16) + 1]
        ELSE HexDigits[(bytes[(i + 1) \div 2] % 16) + 1]]

\* crypto/rand: the source either fails or yields the byte stream numbered k
RandomSource == {[ok |-> FALSE, k |-> 0]} \cup {[ok |-> TRUE, k |-> k] : k \in 0..MaxRand}

\* rand.Read(bytes) for a slice of n bytes
Read(n, rnd) ==
    IF rnd.ok
    THEN [err |-> nil, bytes |-> [i \in 1..n |-> (171 * (rnd.k + i)) % 256]]
    ELSE [err |-> ErrRead, bytes |-> [i \in 1..n |-> 0]]

\* uuid.NewString for every outcome of the random source: a version 4 UUID from
\* 16 random bytes, 8-4-4-4-12 in lower-case hexadecimal; it panics when the
\* random source fails
NewStrings ==
    [rnd \in RandomSource |->
        LET raw == Read(16, rnd).bytes
            uuid == [i \in 1..16 |->
                        IF i = 7 THEN (raw[i] % 16) + 64
                        ELSE IF i = 9 THEN (raw[i] % 64) + 128
                        ELSE raw[i]]
            x == EncodeToString(uuid)
        IN  IF rnd.ok
            THEN [panic |-> FALSE,
                  id |-> SubSeq(x, 1, 8) \o <<"-">> \o SubSeq(x, 9, 12) \o <<"-">>
                         \o SubSeq(x, 13, 16) \o <<"-">> \o SubSeq(x, 17, 20) \o <<"-">>
                         \o SubSeq(x, 21, 32)]
            ELSE [panic |-> TRUE, id |-> <<>>]]

NewString(rnd) == NewStrings[rnd]

\* sha256.Sum256 of the trace ID strings: the leading bytes of the digest
Sum256(s) ==
    CASE s = TraceID1 -> <<57, 138, 202, 238>>
      [] s = TraceID2 -> <<21, 247, 116, 240>>
      [] s = nilTraceID -> <<132, 224, 192, 234>>

\* variant of Member: no member is found
MemberAbsent(b, key) == <<>>

\* baggage: a set of members; a value may hold no space, and the baggage
\* string may not exceed 8192 bytes (the symbol "x*8193" is a run of 8193 characters)
Member(b, key) ==
    IF \E m \in b : m.key = key
    THEN (CHOOSE m \in b : m.key = key).value
    ELSE <<>>

NewMember(key, value) ==
    IF \A i \in 1..Len(value) : value[i] # " "
    THEN [err |-> nil, member |-> [key |-> key, value |-> value]]
    ELSE [err |-> ErrInvalidValue, member |-> [key |-> "", value |-> <<>>]]

NewBaggage(m) ==
    IF \E i \in 1..Len(m.value) : m.value[i] = "x*8193"
    THEN [err |-> ErrBaggageBytes, baggage |-> {}]
    ELSE [err |-> nil, baggage |-> {m}]

\* context.Background()
Background == [baggage |-> {}, traceID |-> nilTraceID, parent |-> 0]

\* baggage.FromContext(ctx)
BaggageFromContext(h, ctx) == h[ctx].baggage

\* variant of ContextWithBaggage: the baggage is put into ctx itself
ContextWithBaggageInPlace(h, ctx, b) ==
    [ctx |-> ctx, ctxs |-> [h EXCEPT ![ctx].baggage = b]]

\* baggage.ContextWithBaggage(ctx, b): a new context, child of ctx, that carries b
ContextWithBaggage(h, ctx, b) ==
    [ctx |-> Len(h) + 1,
     ctxs |-> Append(h, [baggage |-> b, traceID |-> h[ctx].traceID, parent |-> ctx])]

\* trace.SpanFromContext(ctx).SpanContext().TraceID().String()
TraceIDString(h, ctx) == h[ctx].traceID

\* what a call of the package returns: the contexts that exist afterwards, the
\* context and the ID returned, the error, whether the call panicked instead
\* of returning, and what it did with the random source
Returned(h, ctx, id, err, random) ==
    [ctxs |-> h, ctx |-> ctx, id |-> id, err |-> err, panic |-> FALSE, random |-> random]

Panicked(h, random) ==
    [ctxs |-> h, ctx |-> 0, id |-> <<>>, err |-> nil, panic |-> TRUE, random |-> random]

\* the options of FromContext
NoOptions ==
    [generateFixedLengthID |-> FALSE, generateUUID |-> FALSE, value |-> <<>>,
     correlationIDLength |-> 0]

\* variant of generateID: the fixed-length ID comes before the UUID
generateIDFixedFirst(options, rnd) ==
    IF options.generateFixedLengthID
    THEN [id |-> ToUpper(EncodeToString(Read(options.correlationIDLength \div 2, rnd).bytes)),
          err |-> Read(options.correlationIDLength \div 2, rnd).err, panic |-> FALSE]
    ELSE [id |-> NewString(rnd).id, err |-> nil, panic |-> NewString(rnd).panic]

\* generateID(options) of correlationid.go
generateID(options, rnd) ==
    IF options.generateUUID
    THEN [id |-> NewString(rnd).id, err |-> nil, panic |-> NewString(rnd).panic]
    ELSE LET r == Read(options.correlationIDLength \div 2, rnd)
         IN  IF r.err # nil
             THEN [id |-> <<>>, err |-> r.err, panic |-> FALSE]
             ELSE [id |-> ToUpper(EncodeToString(r.bytes)), err |-> nil, panic |-> FALSE]

\* FromContext from "correlationID := options.value" on: the ID is put into a
\* new baggage and that into a new context
FromContextAssign(h, ctx, options, rnd) ==
    LET g == IF options.value = <<>>
             THEN generateID(options, rnd)
             ELSE [id |-> options.value, err |-> nil, panic |-> FALSE]
        random == IF options.value # <<>> THEN "unused"
                  ELSE IF rnd.ok THEN "read" ELSE "failed"
        m == NewMember(CorrelationIDHeader, g.id)
        b == NewBaggage(m.member)
        c == ContextWithBaggage(h, ctx, b.baggage)
    IN  IF g.panic THEN Panicked(h, random)
        ELSE IF g.err # nil THEN Returned(h, 0, <<>>, ErrGenerate, random)
        ELSE IF m.err # nil THEN Returned(h, 0, <<>>, ErrCreateMember, random)
        ELSE IF b.err # nil THEN Returned(h, 0, <<>>, ErrCreateBaggage, random)
        ELSE Returned(c.ctxs, c.ctx, g.id, nil, random)

\* FromContext(ctx, opts...)
FromContext(h, ctx, options, rnd) ==
    LET m == Member(BaggageFromContext(h, ctx), CorrelationIDHeader)
    IN  IF m # <<>> /\ (options.value = <<>> \/ m = options.value)
        THEN Returned(h, ctx, m, nil, "unused")
        ELSE IF /\ ~options.generateFixedLengthID
                /\ ~options.generateUUID
                /\ options.value = <<>>
             THEN Returned(h, ctx, <<>>, nil, "unused")
             ELSE FromContextAssign(h, ctx, options, rnd)

\* variant of SetWithValue: a new context in every case
SetWithValueAlways(h, ctx, correlationID) ==
    [ctxs |-> ContextWithBaggage(h, ctx, {[key |-> CorrelationIDHeader,
                                           value |-> correlationID]}).ctxs,
     ctx |-> Len(h) + 1, err |-> nil]

\* SetWithValue(ctx, correlationID)
SetWithValue(h, ctx, correlationID) ==
    LET m == NewMember(CorrelationIDHeader, correlationID)
        b == NewBaggage(m.member)
        c == ContextWithBaggage(h, ctx, b.baggage)
    IN  IF Member(BaggageFromContext(h, ctx), CorrelationIDHeader) = correlationID
        THEN [ctxs |-> h, ctx |-> ctx, err |-> nil]
        ELSE IF m.err # nil THEN [ctxs |-> h, ctx |-> 0, err |-> ErrCreateMember]
        ELSE IF b.err # nil THEN [ctxs |-> h, ctx |-> 0, err |-> ErrCreateBaggage]
        ELSE [ctxs |-> c.ctxs, ctx |-> c.ctx, err |-> nil]

\* generateID() of httptransport.go
generateIDOfSet(rnd) ==
    LET r == Read(correlationIDLength \div 2, rnd)
    IN  IF r.err # nil
        THEN [id |-> <<>>, err |-> r.err]
        ELSE [id |-> ToUpper(EncodeToString(r.bytes)), err |-> nil]

\* deriveID(id)
deriveID(id) ==
    ToUpper(EncodeToString(SubSeq(Sum256(id), 1, correlationIDLength \div 2)))

\* Set from "ctx, err := SetWithValue(ctx, correlationID)" on
SetAssign(h, ctx, correlationID, random) ==
    LET r == SetWithValue(h, ctx, correlationID)
    IN  Returned(r.ctxs, r.ctx, correlationID, r.err, random)

\* variant of Set: the ID is generated whatever the trace ID is
correlationid_SetAlwaysGenerated(h, ctx, rnd) ==
    IF Member(BaggageFromContext(h, ctx), CorrelationIDHeader) # <<>>
    THEN Returned(h, ctx, Member(BaggageFromContext(h, ctx), CorrelationIDHeader), nil,
                  "unused")
    ELSE IF generateIDOfSet(rnd).err # nil
         THEN Returned(h, 0, <<>>, ErrGenerate, "failed")
         ELSE SetAssign(h, ctx, generateIDOfSet(rnd).id, "read")

\* variant of Set: the baggage is not looked at first
correlationid_SetUnchecked(h, ctx, rnd) ==
    IF TraceIDString(h, ctx) # <<>> /\ TraceIDString(h, ctx) # nilTraceID
    THEN SetAssign(h, ctx, deriveID(TraceIDString(h, ctx)), "unused")
    ELSE IF generateIDOfSet(rnd).err # nil
         THEN Returned(h, 0, <<>>, ErrGenerate, "failed")
         ELSE SetAssign(h, ctx, generateIDOfSet(rnd).id, "read")

\* Set(ctx) of package correlationid
correlationid_Set(h, ctx, rnd) ==
    LET m == Member(BaggageFromContext(h, ctx), CorrelationIDHeader)
        traceID == TraceIDString(h, ctx)
        g == generateIDOfSet(rnd)
    IN  IF m # <<>>
        THEN Returned(h, ctx, m, nil, "unused")
        ELSE IF traceID # <<>> /\ traceID # nilTraceID
             THEN SetAssign(h, ctx, deriveID(traceID), "unused")
             ELSE IF g.err # nil
                  THEN Returned(h, 0, <<>>, ErrGenerate, "failed")
                  ELSE SetAssign(h, ctx, g.id, "read")

-----------------------------------------------------------------------------
(* The inbound middleware of packages correlationidmux and correlationidecho. *)
(* A span is known by its trace ID; `spanAttr` holds the value of the        *)
(* dts.correlation_id attribute of every span.                               *)

MaxRequests == 2   \* requests served one after another

\* trace.SpanFromContext(ctx).SetAttributes(attribute.String(CorrelationIDAttribute, value)):
\* the nil context and a context without a span give the no-op span
SetAttributes(attrs, h, ctx, value) ==
    IF ctx = 0 \/ TraceIDString(h, ctx) = nilTraceID
    THEN attrs
    ELSE [attrs EXCEPT ![TraceIDString(h, ctx)] = value]

\* what the wrapped handler finds on the span of its context
AttributeOf(attrs, h, ctx) ==
    IF ctx = 0 \/ TraceIDString(h, ctx) = nilTraceID
    THEN <<"no span">>
    ELSE attrs[TraceIDString(h, ctx)]

\* the options FromContext is given by a middleware made with opts: the Opts
\* are applied in order to options that start with generateUUID set; those of
\* correlationidmux set their own flag only, those of correlationidecho also
\* clear the other flag
MuxOptions(opts) ==
    [generateFixedLengthID |-> \E i \in 1..Len(opts) : opts[i].opt = "fixed",
     generateUUID |-> TRUE,
     value |-> <<>>,
     correlationIDLength |->
         IF \E i \in 1..Len(opts) : opts[i].opt = "fixed"
         THEN opts[CHOOSE i \in 1..Len(opts) :
                      /\ opts[i].opt = "fixed"
                      /\ \A j \in (i + 1)..Len(opts) : opts[j].opt # "fixed"].length
         ELSE 0]

EchoOptions(opts) ==
    IF opts = <<>> \/ opts[Len(opts)].opt = "uuid"
    THEN [generateFixedLengthID |-> FALSE, generateUUID |-> TRUE, value |-> <<>>,
          correlationIDLength |-> 0]
    ELSE [generateFixedLengthID |-> TRUE, generateUUID |-> FALSE, value |-> <<>>,
          correlationIDLength |-> opts[Len(opts)].length]

\* how a request leaves the middleware: the wrapped handler was called with a
\* context, or the middleware returned an error without calling it, or it panicked
Handled(h, attrs, id, ctx, err) ==
    [ctxs |-> h, attrs |-> attrs, id |-> id, handled |-> 1, handlerCtx |-> ctx,
     attribute |-> AttributeOf(attrs, h, ctx), err |-> err, panic |-> FALSE]

NotHandled(h, attrs, id, err, panic) ==
    [ctxs |-> h, attrs |-> attrs, id |-> id, handled |-> 0, handlerCtx |-> 0,
     attribute |-> <<"unset">>, err |-> err, panic |-> panic]

\* the end of both ServeHTTP: the attribute is set if there is an ID, and
\* req.WithContext(ctx) panics for the nil context, before the handler is called
ServeHTTPEnd(h, attrs, correlationID, ctx, err) ==
    LET a == IF correlationID # <<>>
             THEN SetAttributes(attrs, h, ctx, correlationID)
             ELSE attrs
    IN  IF ctx = 0
        THEN NotHandled(h, a, correlationID, err, TRUE)
        ELSE Handled(h, a, correlationID, ctx, err)

\* variant of ServeHTTP: the ID the context already carries is kept and the header ignored
ServeHTTPKeepsID(h, attrs, header, ctx, options, rnd) ==
    LET r == FromContext(h, ctx, options, rnd)
    IN  IF r.panic
        THEN NotHandled(h, attrs, <<>>, nil, TRUE)
        ELSE ServeHTTPEnd(r.ctxs, attrs, r.id, r.ctx, r.err)

\* MuxMiddleware.ServeHTTP with options: an error of FromContext is logged only
ServeHTTP(h, attrs, header, ctx, options, rnd) ==
    LET r == IF header # <<>>
             THEN FromContext(h, ctx, [NoOptions EXCEPT !.value = header], rnd)
             ELSE FromContext(h, ctx, options, rnd)
    IN  IF r.panic
        THEN NotHandled(h, attrs, <<>>, nil, TRUE)
        ELSE ServeHTTPEnd(r.ctxs, attrs, IF header # <<>> THEN header ELSE r.id,
                          r.ctx, r.err)

\* MuxMiddleware.ServeHTTP of the version that calls Set and SetWithValue
ServeHTTPOfSet(h, attrs, header, ctx, rnd) ==
    IF header # <<>>
    THEN LET r == SetWithValue(h, ctx, header)
         IN  ServeHTTPEnd(r.ctxs, attrs, header, r.ctx, r.err)
    ELSE LET r == correlationid_Set(h, ctx, rnd)
         IN  ServeHTTPEnd(r.ctxs, attrs, r.id, r.ctx, r.err)

\* the handler function Middleware(opts...) of correlationidecho returns: an
\* error of FromContext is returned and next is not called
Middleware(h, attrs, header, ctx, options, rnd) ==
    LET r == IF header # <<>>
             THEN FromContext(h, ctx, [NoOptions EXCEPT !.value = header], rnd)
             ELSE FromContext(h, ctx, options, rnd)
        correlationID == IF header # <<>> THEN header ELSE r.id
    IN  IF r.panic THEN NotHandled(h, attrs, <<>>, nil, TRUE)
        ELSE IF r.err # nil THEN NotHandled(h, attrs, <<>>, r.err, FALSE)
        ELSE Handled(r.ctxs, SetAttributes(attrs, r.ctxs, r.ctx, correlationID),
                     correlationID, r.ctx, nil)

-----------------------------------------------------------------------------
(* The outbound transports.  A request is its context and the values of its *)
(* X-Correlation-ID header, in the order they were added.                   *)

MaxTrips == 2      \* round trips made one after another

defaultCorrelationIDLength == 8

\* req.Header.Get(CorrelationIDHeader): the first value, "" if there is none
HeaderGet(req) == IF req.header = <<>> THEN <<>> ELSE req.header[1]

\* req.Header.Add(CorrelationIDHeader, value): the value is appended
HeaderAdd(req, value) == [req EXCEPT !.header = Append(@, value)]

\* req.Clone(ctx): a request of its own with a copy of the header
Clone(req, ctx) == [header |-> req.header, ctx |-> ctx]

\* how a RoundTrip ends: the caller's request as it is afterwards, the request
\* the inner transport was called with and whether that is the caller's
\* request itself, and how often the inner transport was called
Forwarded(req, forwarded, same) ==
    [original |-> req, forwarded |-> forwarded, same |-> same, inner |-> 1, err |-> nil]

NotForwarded(req, err) ==
    [original |-> req, forwarded |-> [header |-> <<>>, ctx |-> 0], same |-> FALSE,
     inner |-> 0, err |-> err]

\* variant of RoundTrip: the header is added to the caller's request
RoundTripInPlace(h, req) ==
    IF Member(BaggageFromContext(h, req.ctx), CorrelationIDHeader) # <<>>
    THEN Forwarded(HeaderAdd(req, Member(BaggageFromContext(h, req.ctx),
                                         CorrelationIDHeader)),
                   HeaderAdd(req, Member(BaggageFromContext(h, req.ctx),
                                         CorrelationIDHeader)), TRUE)
    ELSE Forwarded(req, req, TRUE)

\* Transport.RoundTrip of package correlationid: the ID is read from the baggage
RoundTrip(h, req) ==
    LET m == Member(BaggageFromContext(h, req.ctx), CorrelationIDHeader)
    IN  IF m # <<>>
        THEN Forwarded(req, HeaderAdd(Clone(req, req.ctx), m), FALSE)
        ELSE Forwarded(req, req, TRUE)

\* Transport.RoundTrip of the version that keeps the ID as a value of the
\* context: correlationID and ok are what req.Context().Value(contextKey{}).(string) gives
RoundTripOfValue(req, correlationID, ok) ==
    IF ok
    THEN Forwarded(req, HeaderAdd(Clone(req, req.ctx), correlationID), FALSE)
    ELSE Forwarded(req, req, TRUE)

\* generateID and shortenID of package correlationidtransport
generateIDOfTransport(length, rnd) ==
    LET r == Read(length \div 2, rnd)
    IN  IF r.err # nil
        THEN [id |-> <<>>, err |-> r.err]
        ELSE [id |-> ToUpper(EncodeToString(r.bytes)), err |-> nil]

shortenID(length, id) ==
    ToUpper(EncodeToString(SubSeq(Sum256(id), 1, length \div 2)))

\* Transport.RoundTrip of package correlationidtransport: the ID is derived
\* from the trace ID or generated, with the length the transport was made with
RoundTripOfTrace(h, req, length, rnd) ==
    LET traceID == TraceIDString(h, req.ctx)
        g == generateIDOfTransport(length, rnd)
    IN  IF traceID = <<>> \/ traceID = nilTraceID
        THEN IF g.err # nil
             THEN NotForwarded(req, ErrGenerate)
             ELSE Forwarded(req, HeaderAdd(Clone(req, req.ctx), g.id), FALSE)
        ELSE Forwarded(req, HeaderAdd(Clone(req, req.ctx), shortenID(length, traceID)),
                       FALSE)

\* no call of the package yet, no attribute set, no request served
NoCidCall ==
    [op |-> "none", ctx |-> 0, options |-> NoOptions, out |-> 0, id |-> <<>>,
     err |-> nil, panic |-> FALSE, random |-> "unused", made |-> 0, calls |-> 0]

NoAttributes == [t \in {TraceID1, TraceID2} |-> <<"unset">>]

NoRequest ==
    [mw |-> "none", header |-> <<>>, ctx |-> 0, opts |-> <<>>, options |-> NoOptions,
     id |-> <<>>,
     handled |-> 0, handlerCtx |-> 0, attribute |-> <<"unset">>, err |-> nil,
     panic |-> FALSE, requests |-> 0]

NoRoundTrip ==
    [transport |-> "none", length |-> 0, value |-> [ok |-> FALSE, correlationID |-> <<>>],
     before |-> [header |-> <<>>, ctx |-> 0],
     original |-> [header |-> <<>>, ctx |-> 0], forwarded |-> [header |-> <<>>, ctx |-> 0],
     same |-> FALSE, inner |-> 0, err |-> nil, trips |-> 0]

-----------------------------------------------------------------------------
(* The states before anything is logged or run concurrently *)

\* no SetSpec call under way, nothing read beside it
NoSetSpec ==
    [spec |-> <<>>, calls |-> <<>>, i |-> 1, err |-> nil, pre |-> EmptyMap,
     post |-> EmptyMap, begun |-> 0,
     seen |-> [read |-> FALSE, module |-> <<>>, level |-> INFO, pre |-> EmptyMap,
               post |-> EmptyMap, during |-> FALSE]]

NoLogger == [module |-> <<>>, fields |-> {}]

Unlocked == [readers |-> 0, writer |-> FALSE]

Idle == [pc |-> "idle", module |-> <<>>, level |-> INFO, visited |-> {}, must |-> {},
         levelsCopy |-> EmptyMap]

NoGoroutines == [g \in {"setter", "getter", "aller"} |-> Idle]

-----------------------------------------------------------------------------
(* The logger: New, the plain and the context-aware log methods *)

\* variant of the stdErr enabler that starts one level too low
stdErrEnablerFromWarning(h, module, lvl) == lvl >= WARNING /\ isEnabled(h, module, lvl)

\* the level enabler of the core that writes to stdErr
stdErrEnabler(h, module, lvl) == lvl >= ERROR /\ isEnabled(h, module, lvl)

\* variant of the stdOut enabler: the threshold is the one the registry had
\* when the logger was made
stdOutEnablerAtConstruction(h, module, lvl) ==
    lvl < ERROR /\ isEnabled(<<EmptyMap>>, module, lvl)

\* variant of the stdOut enabler that does not consult the registry
stdOutEnablerUngated(h, module, lvl) == lvl < ERROR

\* the level enabler of the core that writes to stdOut
stdOutEnabler(h, module, lvl) == lvl < ERROR /\ isEnabled(h, module, lvl)

\* variant of a log call in which a record that no core takes ends the call
LogEventsOnlyIfChecked(h, module, lvl) ==
    LET cores == (IF stdErrEnabler(h, module, lvl) THEN <<"stdErr">> ELSE <<>>)
                 \o (IF stdOutEnabler(h, module, lvl) THEN <<"stdOut">> ELSE <<>>)
    IN  IF cores = <<>>
        THEN <<>>
        ELSE cores \o (CASE lvl = PANIC -> <<"panic">>
                         [] lvl = FATAL -> <<"exit">>
                         [] OTHER -> <<>>)

\* What one log call at lvl does, in order: the logger checks the record
\* against the tee of the two cores (up to ERROR a record no core enables
\* ends the call at once), each core that enables lvl writes the
\* record to its sink, the stdErr core first, and then a PANIC record panics
\* and a FATAL record exits, whether or not a core took the record.
LogEvents(h, module, lvl) ==
    IF lvl <= ERROR /\ ~(stdErrEnabler(h, module, lvl) \/ stdOutEnabler(h, module, lvl))
    THEN <<>>
    ELSE (IF stdErrEnabler(h, module, lvl) THEN <<"stdErr">> ELSE <<>>)
         \o (IF stdOutEnabler(h, module, lvl) THEN <<"stdOut">> ELSE <<>>)
         \o (CASE lvl = PANIC -> <<"panic">>
               [] lvl = FATAL -> <<"exit">>
               [] OTHER -> <<>>)

\* the records a sink holds after the events of a call at lvl
Written(sink, name, events, lvl) ==
    IF \E i \in 1..Len(events) : events[i] = name THEN Append(sink, lvl) ELSE sink

\* the modules SetLevel is called for, and the modules loggers are made for,
\* where the logger is modelled
LogModules == {defaultModuleName, <<"a">>}
LoggerModules == {<<"a">>, <<"b">>}

\* New(module, WithStdOut(w1), WithStdErr(w2)) with two fresh, empty writers
New(module) ==
    /\ pc = "idle"
    /\ logger' = [module |-> module, fields |-> {}]
    /\ stdOut' = <<>>
    /\ stdErr' = <<>>
    /\ UNCHANGED <<regVars, pc, last, concVars, cidVars, applying>>

\* l.With(fields...): the logger itself when no field is given, else a child
\* with the parent's module and cores (and so its sinks) and the fields added
With(fields) ==
    /\ pc = "idle"
    /\ logger' = IF fields = {}
                 THEN logger
                 ELSE [module |-> logger.module, fields |-> logger.fields \cup fields]
    /\ UNCHANGED <<regVars, pc, last, stdOut, stdErr, concVars, cidVars, applying>>

\* the span of a context as the logger sees it: trace ID, span ID and the
\* span ID of the parent, each all zeros when there is none
nilSpanID == <<"0000000000000000">>
SpanID1 == <<"00f067aa0ba902b7">>
SpanID2 == <<"53995c3f42cd8ad8">>

NoSpan == [traceID |-> nilTraceID, spanID |-> nilSpanID, parentSpanID |-> nilSpanID]

\* no span, a root span, a child span of it, and a span context with a trace
\* ID only
Spans ==
    { NoSpan,
      [traceID |-> TraceID1, spanID |-> SpanID1, parentSpanID |-> nilSpanID],
      [traceID |-> TraceID1, spanID |-> SpanID2, parentSpanID |-> SpanID1],
      [traceID |-> TraceID2, spanID |-> nilSpanID, parentSpanID |-> nilSpanID] }

\* WithTracing(ctx): the tracing fields of the span of ctx, each left out
\* when its value is all zeros
WithTracing(span) ==
    {[key |-> "trace_id", value |-> span.traceID] : t \in {span.traceID} \ {nilTraceID}}
    \cup {[key |-> "span_id", value |-> span.spanID] : t \in {span.spanID} \ {nilSpanID}}
    \cup {[key |-> "parent_span_id", value |-> span.parentSpanID] :
             t \in {span.parentSpanID} \ {nilSpanID}}

\* variant of Fields: nothing is appended
FieldsNotAppended(ctx, span) == {}

\* the fields a log method adds to those of its caller: a method with a
\* context (ctx = TRUE) appends WithTracing(ctx), a plain method nothing
Fields(ctx, span) == IF ctx THEN WithTracing(span) ELSE {}

\* logger.Debug/Info/Warn/Error/Panic/Fatal (ctx = FALSE) and
\* logger.Debugc/Infoc/Warnc/Errorc/Panicc/Fatalc (ctx = TRUE), the latter
\* with a context whose span is span
Log(lvl, ctx, span) ==
    /\ pc = "idle"
    /\ Len(stdOut) + Len(stdErr) < MaxSink
    /\ ~ctx => span = NoSpan
    /\ LET events == LogEvents(heap, logger.module, lvl)
       IN  /\ stdOut' = Written(stdOut, "stdOut", events, lvl)
           /\ stdErr' = Written(stdErr, "stdErr", events, lvl)
           /\ last' = [NoCall EXCEPT !.op = "Log", !.module = logger.module,
                                     !.level = lvl, !.ctx = ctx, !.events = events,
                                     !.span = span, !.fields = Fields(ctx, span),
                                     !.pre = heap[LevelsRef],
                                     !.preOut = stdOut, !.preErr = stdErr]
           /\ pc' = IF \E i \in 1..Len(events) : events[i] = "exit"
                    THEN "exited"
                    ELSE "returned"
    /\ UNCHANGED <<regVars, logger, concVars, cidVars, applying>>

InitLog ==
    /\ heap = newModuleLevels
    /\ setLog = EmptyMap
    /\ snap = 0
    /\ held = 0
    /\ pc = "idle"
    /\ last = NoCall
    /\ logger \in {[module |-> module, fields |-> {}] : module \in LoggerModules}
    /\ stdOut = <<>>
    /\ stdErr = <<>>
    /\ rwmutex = Unlocked
    /\ gor = NoGoroutines
    /\ ctxs = <<Background>>
    /\ cidLast = NoCidCall
    /\ spanAttr = NoAttributes
    /\ mwLast = NoRequest
    /\ rtLast = NoRoundTrip
    /\ applying = NoSetSpec

NextLog ==
    \/ \E module \in LogModules, level \in Levels : SetLevel(module, level)
    \/ \E module \in LoggerModules : New(module)
    \/ \E fields \in {{}, {[key |-> "request", value |-> <<"r1">>]}} : With(fields)
    \/ \E lvl \in Levels, ctx \in BOOLEAN, span \in Spans : Log(lvl, ctx, span)
    \/ Return

SpecLog == InitLog /\ [][NextLog]_vars

Init ==
    /\ heap = newModuleLevels
    /\ setLog = EmptyMap
    /\ snap = 0
    /\ held = 0
    /\ pc = "idle"
    /\ last = NoCall
    /\ logger = NoLogger
    /\ stdOut = <<>>
    /\ stdErr = <<>>
    /\ rwmutex = Unlocked
    /\ gor = NoGoroutines
    /\ ctxs = <<Background>>
    /\ cidLast = NoCidCall
    /\ spanAttr = NoAttributes
    /\ mwLast = NoRequest
    /\ rtLast = NoRoundTrip
    /\ applying = NoSetSpec

Next ==
    \/ \E module \in Modules, level \in Levels : SetLevel(module, level)
    \/ \E level \in Levels : SetDefaultLevel(level)
    \/ \E level \in LevelStrings : ParseLevelCall(level)
    \/ \E spec \in SpecStrings : SetSpecCall(spec)
    \/ GetSpecCall
    \/ SetSpecOfGetSpec
    \/ AllCall
    \/ \E module \in Modules, level \in Levels : SetLevelWhileHeld(module, level)
    \/ \E module \in Modules, level \in Levels : StoreIntoSnapshot(module, level)
    \/ Return

Spec == Init /\ [][Next]_vars

-----------------------------------------------------------------------------
(* The callers of package correlationid *)

\* the values given to WithValue and SetWithValue: none, two IDs, a value with
\* a space in it, and a value longer than a baggage string may be
Values == {<<>>, <<"id1">>, <<"id2">>, <<"id", " ", "1">>, <<"x*8193">>}

Options ==
    {o \in [generateFixedLengthID : BOOLEAN, generateUUID : BOOLEAN, value : Values,
            correlationIDLength : 0..MaxLen] :
        ~o.generateFixedLengthID => o.correlationIDLength = 0}

\* a member the application keeps in the baggage for its own use
OtherMember == [key |-> "tenant", value |-> <<"t1">>]

\* the context a caller starts from: context.Background(), or a context with a
\* span, with baggage of the application's, with a correlation ID in it
BaseContexts ==
    { Background,
      [baggage |-> {OtherMember}, traceID |-> TraceID1, parent |-> 0],
      [baggage |-> {}, traceID |-> TraceID2, parent |-> 0],
      [baggage |-> {[key |-> CorrelationIDHeader, value |-> <<"id1">>], OtherMember},
       traceID |-> nilTraceID, parent |-> 0],
      [baggage |-> {[key |-> CorrelationIDHeader, value |-> <<"id1">>], OtherMember},
       traceID |-> TraceID1, parent |-> 0] }

\* the call returns (or panics): the caller has the results, the contexts made exist
CidReturn(op, ctx, options, r) ==
    /\ ctxs' = r.ctxs
    /\ cidLast' = [op |-> op, ctx |-> ctx, options |-> options, out |-> r.ctx,
                   id |-> r.id, err |-> r.err, panic |-> r.panic, random |-> r.random,
                   made |-> Len(r.ctxs) - Len(ctxs), calls |-> cidLast.calls + 1]
    /\ UNCHANGED <<regVars, pc, last, logVars, concVars, spanAttr, mwLast, rtLast,
                   applying>>

\* FromContext(ctx, opts...)
FromContextCall(ctx, options, rnd) ==
    /\ cidLast.calls < MaxCalls
    /\ \E r \in {FromContext(ctxs, ctx, options, rnd)} :
          \* a call that leaves the random source alone is taken for one outcome of it
          /\ r.random = "unused" => rnd = [ok |-> FALSE, k |-> 0]
          /\ CidReturn("FromContext", ctx, options, r)

\* Set(ctx)
SetCall(ctx, rnd) ==
    /\ cidLast.calls < MaxCalls
    /\ \E r \in {correlationid_Set(ctxs, ctx, rnd)} :
          CidReturn("Set", ctx, NoOptions, r)

\* SetWithValue(ctx, correlationID)
SetWithValueCall(ctx, correlationID) ==
    /\ cidLast.calls < MaxCalls
    /\ \E r \in {SetWithValue(ctxs, ctx, correlationID)} :
          CidReturn("SetWithValue", ctx, [NoOptions EXCEPT !.value = correlationID],
                    Returned(r.ctxs, r.ctx, <<>>, r.err, "unused"))

InitCid ==
    /\ heap = newModuleLevels
    /\ setLog = EmptyMap
    /\ snap = 0
    /\ held = 0
    /\ pc = "idle"
    /\ last = NoCall
    /\ logger = NoLogger
    /\ stdOut = <<>>
    /\ stdErr = <<>>
    /\ rwmutex = Unlocked
    /\ gor = NoGoroutines
    /\ ctxs \in {<<base>> : base \in BaseContexts}
    /\ cidLast = NoCidCall
    /\ spanAttr = NoAttributes
    /\ mwLast = NoRequest
    /\ rtLast = NoRoundTrip
    /\ applying = NoSetSpec

NextCid ==
    \/ \E ctx \in 1..Len(ctxs), options \in Options, rnd \in RandomSource :
          FromContextCall(ctx, options, rnd)
    \/ \E ctx \in 1..Len(ctxs), rnd \in RandomSource : SetCall(ctx, rnd)
    \/ \E ctx \in 1..Len(ctxs), correlationID \in Values :
          SetWithValueCall(ctx, correlationID)

SpecCid == InitCid /\ [][NextCid]_vars

-----------------------------------------------------------------------------
(* The requests served by the middleware *)

\* the Opts a middleware is made with; the lengths asked for are an even and
\* an odd one
Opts ==
    {<<>>, <<[opt |-> "uuid", length |-> 0]>>}
    \cup {<<[opt |-> "fixed", length |-> n]>> : n \in {MaxLen - 1, MaxLen}}
    \cup {<<[opt |-> "fixed", length |-> n], [opt |-> "uuid", length |-> 0]>> :
             n \in {MaxLen - 1, MaxLen}}
    \cup {<<[opt |-> "uuid", length |-> 0], [opt |-> "fixed", length |-> n]>> :
             n \in {MaxLen - 1, MaxLen}}

\* the request is over: the contexts made exist, the span has its attribute
Served(mw, header, ctx, opts, options, r) ==
    /\ ctxs' = r.ctxs
    /\ spanAttr' = r.attrs
    /\ mwLast' = [mw |-> mw, header |-> header, ctx |-> ctx, opts |-> opts,
                  options |-> options,
                  id |-> r.id, handled |-> r.handled, handlerCtx |-> r.handlerCtx,
                  attribute |-> r.attribute, err |-> r.err, panic |-> r.panic,
                  requests |-> mwLast.requests + 1]
    /\ UNCHANGED <<regVars, pc, last, logVars, concVars, cidLast, rtLast, applying>>

\* a request reaches the mux middleware made by Middleware(opts...)
MuxRequest(header, ctx, opts, rnd) ==
    /\ mwLast.requests < MaxRequests
    \* the options and the random source matter only when there is no header
    /\ header # <<>> => opts = <<>> /\ rnd = [ok |-> FALSE, k |-> 0]
    /\ \E r \in {ServeHTTP(ctxs, spanAttr, header, ctx, MuxOptions(opts), rnd)} :
          Served("mux", header, ctx, opts, MuxOptions(opts), r)

\* a request reaches the mux middleware of the version without options
MuxOfSetRequest(header, ctx, rnd) ==
    /\ mwLast.requests < MaxRequests
    /\ header # <<>> => rnd = [ok |-> FALSE, k |-> 0]
    /\ \E r \in {ServeHTTPOfSet(ctxs, spanAttr, header, ctx, rnd)} :
          Served("mux of Set", header, ctx, <<>>, NoOptions, r)

\* a request reaches the echo middleware made by Middleware(opts...)
EchoRequest(header, ctx, opts, rnd) ==
    /\ mwLast.requests < MaxRequests
    /\ header # <<>> => opts = <<>> /\ rnd = [ok |-> FALSE, k |-> 0]
    /\ \E r \in {Middleware(ctxs, spanAttr, header, ctx, EchoOptions(opts), rnd)} :
          Served("echo", header, ctx, opts, EchoOptions(opts), r)

NextMw ==
    \/ \E header \in Values, ctx \in 1..Len(ctxs), opts \in Opts, rnd \in RandomSource :
          MuxRequest(header, ctx, opts, rnd)
    \/ \E header \in Values, ctx \in 1..Len(ctxs), rnd \in RandomSource :
          MuxOfSetRequest(header, ctx, rnd)
    \/ \E header \in Values, ctx \in 1..Len(ctxs), opts \in Opts, rnd \in RandomSource :
          EchoRequest(header, ctx, opts, rnd)

SpecMw == InitCid /\ [][NextMw]_vars

-----------------------------------------------------------------------------
(* The round trips made through the transports *)

\* the requests a client sends: on any context, without the header or with one
\* a caller has set already
Requests(h) == [header : {<<>>, <<<<"id2">>>>}, ctx : 1..Len(h)]

\* the lengths a Transport of correlationidtransport is made with
TransportLengths == (0..MaxLen) \cup {defaultCorrelationIDLength}

\* the round trip is over
TripDone(transport, length, value, req, r) ==
    /\ rtLast' = [transport |-> transport, length |-> length, value |-> value,
                  before |-> req,
                  original |-> r.original, forwarded |-> r.forwarded, same |-> r.same,
                  inner |-> r.inner, err |-> r.err, trips |-> rtLast.trips + 1]
    /\ UNCHANGED <<regVars, pc, last, logVars, concVars, ctxs, cidLast, spanAttr, mwLast,
                   applying>>

RoundTripCall(req) ==
    /\ rtLast.trips < MaxTrips
    /\ TripDone("baggage", 0, NoRoundTrip.value, req, RoundTrip(ctxs, req))

RoundTripOfValueCall(req, correlationID, ok) ==
    /\ rtLast.trips < MaxTrips
    /\ ~ok => correlationID = <<>>
    /\ TripDone("value", 0, [ok |-> ok, correlationID |-> correlationID], req,
                RoundTripOfValue(req, correlationID, ok))

RoundTripOfTraceCall(req, length, rnd) ==
    /\ rtLast.trips < MaxTrips
    /\ TripDone("trace", length, NoRoundTrip.value, req,
                RoundTripOfTrace(ctxs, req, length, rnd))

NextRt ==
    \/ \E req \in Requests(ctxs) : RoundTripCall(req)
    \/ \E req \in Requests(ctxs), correlationID \in {<<>>, <<"id1">>}, ok \in BOOLEAN :
          RoundTripOfValueCall(req, correlationID, ok)
    \/ \E req \in Requests(ctxs), length \in TransportLengths, rnd \in RandomSource :
          RoundTripOfTraceCall(req, length, rnd)

SpecRt == InitCid /\ [][NextRt]_vars

-----------------------------------------------------------------------------
(* SetSpec beside a reader.  SetSpec takes no lock of its own: each of its  *)
(* levels.Set calls takes and releases the write lock, and a GetLevel of    *)
(* another goroutine, which holds the read lock for its one read, can come  *)
(* before, between and after them.                                          *)

MaxApplied == 2    \* SetSpec calls made one after another

\* SetSpec(spec) up to its first levels.Set call: the spec is parsed; with an
\* error the call is over, without one the calls to make are known
SetSpecBegin(spec) ==
    /\ applying.i > Len(applying.calls)
    /\ applying.begun < MaxApplied
    /\ \E r \in {SetSpec(heap, spec)} :
          applying' = [applying EXCEPT !.spec = spec, !.calls = r.calls, !.i = 1,
                                       !.err = r.err, !.pre = heap[LevelsRef],
                                       !.post = r.heap[LevelsRef],
                                       !.begun = applying.begun + 1]
    /\ UNCHANGED <<regVars, pc, last, logVars, concVars, cidVars>>

\* the next levels.Set call of the SetSpec under way
SetSpecSet ==
    /\ applying.i <= Len(applying.calls)
    /\ heap' = Set(heap, applying.calls[applying.i].module,
                   applying.calls[applying.i].logLevel)
    /\ setLog' = MapStore(setLog, applying.calls[applying.i].module,
                          applying.calls[applying.i].logLevel)
    /\ applying' = [applying EXCEPT !.i = applying.i + 1]
    /\ UNCHANGED <<snap, held, pc, last, logVars, concVars, cidVars>>

\* GetLevel(module) of another goroutine; what it returns is kept together
\* with the registry as it was before the SetSpec under way, if there is one,
\* and as that SetSpec leaves it
GetLevelBeside(module) ==
    /\ applying' =
          [applying EXCEPT !.seen =
              [read |-> TRUE, module |-> module, level |-> Get(heap, module),
               pre |-> IF applying.i <= Len(applying.calls)
                       THEN applying.pre ELSE heap[LevelsRef],
               post |-> IF applying.i <= Len(applying.calls)
                        THEN applying.post ELSE heap[LevelsRef],
               during |-> applying.i <= Len(applying.calls)]]
    /\ UNCHANGED <<regVars, pc, last, logVars, concVars, cidVars>>

NextApply ==
    \/ \E spec \in SpecStrings : SetSpecBegin(spec)
    \/ SetSpecSet
    \/ \E module \in Modules : GetLevelBeside(module)

SpecApply == Init /\ [][NextApply]_vars

-----------------------------------------------------------------------------
(* Properties of package correlationid, checked under SpecCid *)

\* the correlation ID in the baggage of context c, "" if there is none
CarriedID(c) ==
    IF \E m \in ctxs[c].baggage : m.key = CorrelationIDHeader
    THEN (CHOOSE m \in ctxs[c].baggage : m.key = CorrelationIDHeader).value
    ELSE <<>>

\* the values a baggage member can be made of
WellFormed == {<<"id1">>, <<"id2">>}

UpperHex == {"0", "1", "2", "3", "4", "5", "6", "7", "8", "9", "A", "B", "C", "D", "E", "F"}

IsUpperHex(id) == \A i \in 1..Len(id) : id[i] \in UpperHex

\* the form of a version 4 UUID
IsUUID(id) ==
    /\ Len(id) = 36
    /\ \A i \in 1..36 :
          IF i \in {9, 14, 19, 24}
          THEN id[i] = "-"
          ELSE LowerSymbol(id[i]) = id[i] /\ UpperSymbol(id[i]) \in UpperHex
    /\ id[15] = "4"

\* C12 as stated: when the baggage of ctx carries a correlation ID, FromContext
\* with any options, and Set, return that ID and ctx itself and make no context.
C12_AsStated ==
    (cidLast.op \in {"FromContext", "Set"} /\ CarriedID(cidLast.ctx) # <<>>) =>
        /\ cidLast.err = nil
        /\ ~cidLast.panic
        /\ cidLast.out = cidLast.ctx
        /\ cidLast.id = CarriedID(cidLast.ctx)
        /\ cidLast.made = 0

\* C12, amended: when the baggage of ctx carries a correlation ID w, Set, and
\* FromContext with any options whose WithValue value is empty or equal to w,
\* return w and ctx itself and make no context.
C12_ExistingIDKept ==
    ( /\ cidLast.op \in {"FromContext", "Set"}
      /\ CarriedID(cidLast.ctx) # <<>>
      /\ cidLast.options.value \in {<<>>, CarriedID(cidLast.ctx)} ) =>
        /\ cidLast.err = nil
        /\ ~cidLast.panic
        /\ cidLast.out = cidLast.ctx
        /\ cidLast.id = CarriedID(cidLast.ctx)
        /\ cidLast.made = 0

\* FromContext with both generation options on a context that carries "id1"
\* has returned that context
C12_Witness ==
    /\ cidLast.op = "FromContext"
    /\ CarriedID(cidLast.ctx) = <<"id1">>
    /\ cidLast.options.generateUUID
    /\ cidLast.options.generateFixedLengthID
    /\ cidLast.options.value = <<>>
    /\ cidLast.out = cidLast.ctx


\* C13: on a context whose baggage carries the ID w, setting an explicit value v
\* (FromContext with WithValue(v), or SetWithValue(ctx, v); v a value a baggage
\* member can be made of) returns the context itself if v = w; if v differs
\* from w it returns a new context, not the one given, whose baggage carries v,
\* and FromContext returns v, for the call and for the new context.
C13_ExplicitValue ==
    ( /\ cidLast.op \in {"FromContext", "SetWithValue"}
      /\ CarriedID(cidLast.ctx) # <<>>
      /\ cidLast.options.value \in WellFormed ) =>
        /\ cidLast.err = nil
        /\ ~cidLast.panic
        /\ cidLast.options.value = CarriedID(cidLast.ctx) =>
              cidLast.out = cidLast.ctx /\ cidLast.made = 0
        /\ cidLast.options.value # CarriedID(cidLast.ctx) =>
              /\ cidLast.out \notin {0, cidLast.ctx}
              /\ cidLast.made = 1
              /\ CarriedID(cidLast.out) = cidLast.options.value
              /\ cidLast.op = "FromContext" => cidLast.id = cidLast.options.value
              /\ \A rnd \in RandomSource :
                    FromContext(ctxs, cidLast.out, NoOptions, rnd) =
                        Returned(ctxs, cidLast.out, cidLast.options.value, nil, "unused")

\* FromContext with WithValue("id2") on a context that carries "id1" has
\* returned another context, which carries "id2"
C13_Witness ==
    /\ cidLast.op = "FromContext"
    /\ CarriedID(cidLast.ctx) = <<"id1">>
    /\ cidLast.options.value = <<"id2">>
    /\ cidLast.out # cidLast.ctx
    /\ cidLast.out # 0
    /\ CarriedID(cidLast.out) = <<"id2">>

\* C14: when the baggage carries no correlation ID, FromContext takes the ID,
\* for every combination of options, from the first of these that applies: the
\* WithValue value if it is not empty; a new UUID if GenerateUUIDIfNotFound is
\* set; a new random token of upper-case hexadecimal digits if
\* GenerateNewFixedLengthIfNotFound is set; otherwise it assigns nothing and
\* returns the context it was given and the empty string.  (The value is one a
\* baggage member can be made of, and the random source, where read, delivers.)
C14_Priority ==
    (cidLast.op = "FromContext" /\ CarriedID(cidLast.ctx) = <<>>) =>
        IF cidLast.options.value # <<>>
        THEN cidLast.options.value \in WellFormed =>
                /\ cidLast.err = nil
                /\ cidLast.random = "unused"
                /\ cidLast.id = cidLast.options.value
                /\ cidLast.made = 1
                /\ CarriedID(cidLast.out) = cidLast.id
        ELSE IF cidLast.options.generateUUID
        THEN cidLast.random = "read" =>
                /\ cidLast.err = nil
                /\ IsUUID(cidLast.id)
                /\ cidLast.made = 1
                /\ CarriedID(cidLast.out) = cidLast.id
        ELSE IF cidLast.options.generateFixedLengthID
        THEN cidLast.random = "read" =>
                /\ cidLast.err = nil
                /\ IsUpperHex(cidLast.id)
                /\ cidLast.made = 1
                /\ CarriedID(cidLast.out) = cidLast.id
        ELSE /\ cidLast.err = nil
             /\ ~cidLast.panic
             /\ cidLast.random = "unused"
             /\ cidLast.out = cidLast.ctx
             /\ cidLast.id = <<>>
             /\ cidLast.made = 0

\* FromContext with both generation options and no value, on a context without
\* a correlation ID, has returned a UUID
C14_Witness ==
    /\ cidLast.op = "FromContext"
    /\ CarriedID(cidLast.ctx) = <<>>
    /\ cidLast.options.value = <<>>
    /\ cidLast.options.generateUUID
    /\ cidLast.options.generateFixedLengthID
    /\ cidLast.options.correlationIDLength = 2
    /\ IsUUID(cidLast.id)

\* C15: once Set(ctx0) has returned ctx1 and id1 without error, Set(ctx1)
\* returns ctx1 and id1 again and SetWithValue(ctx1, id1) returns ctx1, neither
\* making a context; and no baggage ever holds two correlation-ID members.
C15_SetIdempotent ==
    /\ [][ ( /\ cidLast.op = "Set"
             /\ cidLast.err = nil
             /\ cidLast'.ctx = cidLast.out ) =>
               /\ cidLast'.op = "Set" =>
                     /\ cidLast'.err = nil
                     /\ cidLast'.out = cidLast.out
                     /\ cidLast'.id = cidLast.id
                     /\ ctxs' = ctxs
               /\ (cidLast'.op = "SetWithValue" /\ cidLast'.options.value = cidLast.id) =>
                     /\ cidLast'.err = nil
                     /\ cidLast'.out = cidLast.out
                     /\ ctxs' = ctxs ]_vars
    /\ [](\A c \in 1..Len(ctxs) :
              Cardinality({m \in ctxs[c].baggage : m.key = CorrelationIDHeader}) <= 1)

\* Set has been called on a context that an earlier Set made, and has returned
\* that context and the ID it carries
C15_Witness ==
    /\ cidLast.op = "Set"
    /\ cidLast.ctx > 1
    /\ ctxs[cidLast.ctx].parent = 1
    /\ CarriedID(1) = <<>>
    /\ Len(cidLast.id) = correlationIDLength
    /\ cidLast.out = cidLast.ctx
    /\ cidLast.id = CarriedID(cidLast.ctx)

\* the first four bytes of the SHA-256 digest of a trace ID string, in
\* upper-case hexadecimal
DigestPrefix(traceID) ==
    CASE traceID = TraceID1 -> <<"3", "9", "8", "A", "C", "A", "E", "E">>
      [] traceID = TraceID2 -> <<"1", "5", "F", "7", "7", "4", "F", "0">>
      [] OTHER -> <<>>

\* C16: when the context has a span with a trace ID that is not all zeros and
\* its baggage carries no correlation ID, Set returns the first
\* correlationIDLength/2 bytes of the SHA-256 digest of the trace ID string in
\* upper-case hexadecimal, whatever the random source would yield; Set reads
\* the random source only when the trace ID is empty or all zeros.
C16_DerivedFromTraceID ==
    cidLast.op = "Set" =>
        /\ ( /\ CarriedID(cidLast.ctx) = <<>>
             /\ ctxs[cidLast.ctx].traceID \notin {<<>>, nilTraceID} ) =>
                /\ cidLast.err = nil
                /\ cidLast.random = "unused"
                /\ cidLast.id = DigestPrefix(ctxs[cidLast.ctx].traceID)
                /\ Len(cidLast.id) = correlationIDLength
                /\ CarriedID(cidLast.out) = cidLast.id
        /\ cidLast.random # "unused" => ctxs[cidLast.ctx].traceID \in {<<>>, nilTraceID}

\* Set on a context with a span of trace ID TraceID2 and an empty baggage has
\* returned the ID derived from that trace ID
C16_Witness ==
    /\ cidLast.op = "Set"
    /\ ctxs[cidLast.ctx].traceID = TraceID2
    /\ ctxs[cidLast.ctx].baggage = {}
    /\ cidLast.id = <<"1", "5", "F", "7", "7", "4", "F", "0">>

\* C17 as stated: an ID generated by the fixed-length option for the length n
\* has exactly n characters, all of them upper-case hexadecimal digits, for odd
\* n as for even n.
C17_ExactLength ==
    ( /\ cidLast.op = "FromContext"
      /\ CarriedID(cidLast.ctx) = <<>>
      /\ cidLast.options.value = <<>>
      /\ ~cidLast.options.generateUUID
      /\ cidLast.options.generateFixedLengthID
      /\ cidLast.random = "read" ) =>
        /\ Len(cidLast.id) = cidLast.options.correlationIDLength
        /\ IsUpperHex(cidLast.id)

\* C18 as stated: a failure inside FromContext, Set or SetWithValue (the random
\* source fails when it is read, the value cannot be made a baggage member, the
\* baggage cannot be built) comes back to the caller as a non-nil error, with
\* no context and no ID from another source.
C18_FailuresReturned ==
    ( /\ cidLast.op \in {"FromContext", "Set", "SetWithValue"}
      /\ \/ cidLast.random = "failed"
         \/ /\ cidLast.options.value \notin WellFormed \cup {<<>>}
            /\ cidLast.options.value # CarriedID(cidLast.ctx) ) =>
        /\ ~cidLast.panic
        /\ cidLast.err # nil
        /\ cidLast.out = 0
        /\ cidLast.id = <<>>

C26_OtherMembersKept ==
    cidLast.made = 1 =>
        /\ \A m \in ctxs[cidLast.ctx].baggage :
              m.key # CorrelationIDHeader => m \in ctxs[cidLast.out].baggage
        /\ \E m \in ctxs[cidLast.out].baggage : m.key = CorrelationIDHeader

\* C30: when FromContext is given GenerateUUIDIfNotFound,
\* GenerateNewFixedLengthIfNotFound(n) for any n >= 0, or WithValue of a
\* value, and returns without error, the ID it returns is not empty and is
\* the correlation ID in the baggage of the context it returns.
C30_NonEmptyID ==
    /\ cidLast.op = "FromContext"
    /\ \/ cidLast.options.generateUUID
       \/ cidLast.options.generateFixedLengthID
       \/ cidLast.options.value # <<>>
    /\ cidLast.err = nil
    /\ ~cidLast.panic
    => /\ cidLast.id # <<>>
       /\ cidLast.out # 0
       /\ cidLast.id = CarriedID(cidLast.out)

-----------------------------------------------------------------------------
(* Properties of the inbound middleware, checked under SpecMw *)

\* C19: whenever a middleware (mux or echo) calls the wrapped handler, the
\* context it passes carries the request's X-Correlation-ID header value as
\* its correlation ID if the header is not empty, whatever ID the incoming
\* context carried; and, with or without a header, the dts.correlation_id
\* attribute of the span of that context holds the final ID at that moment.
C19_HeaderAuthoritative ==
    mwLast.handled = 1 =>
        /\ mwLast.handlerCtx \in 1..Len(ctxs)
        /\ mwLast.header # <<>> =>
              /\ CarriedID(mwLast.handlerCtx) = mwLast.header
              /\ mwLast.id = mwLast.header
        /\ mwLast.id = CarriedID(mwLast.handlerCtx)
        /\ ctxs[mwLast.handlerCtx].traceID # nilTraceID =>
              mwLast.attribute = mwLast.id

\* a request with a header reached a middleware on a context with a span that
\* carried another ID, and the handler was called
C19_Witness ==
    /\ mwLast.handled = 1
    /\ mwLast.mw \in {"mux", "echo"}
    /\ mwLast.header = <<"id2">>
    /\ CarriedID(mwLast.ctx) = <<"id1">>
    /\ ctxs[mwLast.ctx].traceID = TraceID1
    /\ mwLast.attribute = <<"id2">>

\* C20: a request for which the mux middleware fails to set the correlation
\* ID (FromContext, SetWithValue or Set returns an error) still reaches the
\* wrapped handler: once, with a context that is not nil, without a panic.
C20_RequestProceeds ==
    mwLast.mw \in {"mux", "mux of Set"} /\ mwLast.err # nil =>
        /\ mwLast.handled = 1
        /\ mwLast.handlerCtx # 0
        /\ ~mwLast.panic

\* the length a middleware made with opts was asked for, if it was asked for one
FixedLengths(opts) == {opts[i].length : i \in {j \in 1..Len(opts) : opts[j].opt = "fixed"}}

\* C21: a request without header, on a context without correlation ID, gets
\* its ID by the option the middleware (mux or echo) was made with: a
\* middleware made with GenerateNewFixedLengthIfNotFound(n) alone gives the
\* handler an ID of n upper-case hexadecimal digits, one made with
\* GenerateUUIDIfNotFound() or with no option gives it a UUID, and one made
\* with both options, in either order, gives it one of the two.
C21_ConfiguredPolicy ==
    /\ mwLast.mw \in {"mux", "echo"}
    /\ mwLast.handled = 1
    /\ mwLast.header = <<>>
    /\ CarriedID(mwLast.ctx) = <<>>
    => /\ FixedLengths(mwLast.opts) = {} => IsUUID(mwLast.id)
       /\ \A n \in FixedLengths(mwLast.opts) :
             \/ Len(mwLast.id) = n /\ IsUpperHex(mwLast.id)
             \/ Len(mwLast.opts) = 2 /\ IsUUID(mwLast.id)

-----------------------------------------------------------------------------
(* Properties of the outbound transports, checked under SpecRt *)

\* whether the request context of the latest round trip carries a correlation
\* ID, where the transport's version keeps it
CarriesID ==
    IF rtLast.transport = "value"
    THEN rtLast.value.ok
    ELSE CarriedID(rtLast.before.ctx) # <<>>

\* C22: the request a Transport (of package correlationid or of package
\* correlationidtransport) forwards to the inner transport has, as its
\* X-Correlation-ID header, the correlation ID of the request context; if the
\* context carries none but has a span with a non-zero trace ID, the header
\* is the ID derived from that trace ID.
C22_HeaderCarriesID ==
    rtLast.transport \in {"baggage", "trace"} /\ rtLast.inner = 1 =>
        /\ CarriedID(rtLast.before.ctx) # <<>> =>
              HeaderGet(rtLast.forwarded) = CarriedID(rtLast.before.ctx)
        /\ /\ CarriedID(rtLast.before.ctx) = <<>>
           /\ ctxs[rtLast.before.ctx].traceID # nilTraceID
           => HeaderGet(rtLast.forwarded) =
                 IF rtLast.transport = "trace"
                 THEN SubSeq(DigestPrefix(ctxs[rtLast.before.ctx].traceID), 1,
                             2 * (rtLast.length \div 2))
                 ELSE DigestPrefix(ctxs[rtLast.before.ctx].traceID)

\* C29 as stated: the caller's request is the same after RoundTrip as before,
\* a header is added on a clone only, the inner transport is called exactly
\* once, and a request whose context carries no correlation ID is forwarded
\* as it is.
C29_AsStated ==
    rtLast.transport # "none" =>
        /\ rtLast.original = rtLast.before
        /\ rtLast.forwarded.header # rtLast.before.header => ~rtLast.same
        /\ rtLast.inner = 1
        /\ ~CarriesID => rtLast.same /\ rtLast.forwarded = rtLast.before

\* C29: the caller's request is the same after RoundTrip as before and a
\* header is added on a clone only; the inner transport is called once unless
\* RoundTrip returns an error of its own (the Transport of
\* correlationidtransport failing to generate an ID), and then not at all;
\* the transports that read the ID from the context forward a request whose
\* context carries none as it is.
C29_CallerRequestKept ==
    rtLast.transport # "none" =>
        /\ rtLast.original = rtLast.before
        /\ rtLast.forwarded.header # rtLast.before.header => ~rtLast.same
        /\ rtLast.inner = IF rtLast.err = nil THEN 1 ELSE 0
        /\ rtLast.err # nil => rtLast.transport = "trace"
        /\ rtLast.transport \in {"baggage", "value"} /\ ~CarriesID =>
              rtLast.same /\ rtLast.forwarded = rtLast.before

\* a request that has the header already went through the Transport of package
\* correlationid on a context with an ID: a clone with the ID added went on
C29_Witness ==
    /\ rtLast.transport = "baggage"
    /\ rtLast.before.header = <<<<"id2">>>>
    /\ CarriedID(rtLast.before.ctx) = <<"id1">>
    /\ rtLast.forwarded.header = <<<<"id2">>, <<"id1">>>>
    /\ ~rtLast.same
    /\ rtLast.original = rtLast.before

-----------------------------------------------------------------------------
(* SetSpec and concurrent readers, checked under SpecApply *)

\* C27: a GetLevel beside a successful SetSpec returns what it would return
\* before that SetSpec or what it returns after it, never the level of a
\* registry to which only a part of the spec has been applied.
C27_SetSpecAtomic ==
    applying.seen.read =>
        applying.seen.level \in {GetIn(applying.seen.pre, applying.seen.module),
                                 GetIn(applying.seen.post, applying.seen.module)}

-----------------------------------------------------------------------------
(* Properties of the registry, checked under Spec *)

\* position of a level in the order of severities
Rank(l) == CHOOSE i \in 1..Len(LevelOrder) : LevelOrder[i] = l

\* a module that no call ever names
Unregistered == <<"zz">>

\* C1: for every module m, Get(m) is the level of the latest Set for m if
\* there was one, else the level of the latest Set for the default module ""
\* if there was one, else INFO; after any sequence of SetLevel,
\* SetDefaultLevel and SetSpec calls.
C1_GetFallsBack ==
    \A m \in Modules \cup {Unregistered} :
        Get(heap, m) = IF m \in DOMAIN setLog
                       THEN setLog[m]
                       ELSE IF defaultModuleName \in DOMAIN setLog
                            THEN setLog[defaultModuleName]
                            ELSE INFO

\* a SetSpec has registered "a" and a default other than INFO, "b" has no
\* entry and gets the default
C1_Witness ==
    /\ last.op = "SetSpec"
    /\ last.err = nil
    /\ <<"a">> \in DOMAIN setLog
    /\ <<"b">> \notin DOMAIN setLog
    /\ Get(heap, <<"a">>) = DEBUG
    /\ Get(heap, <<"b">>) = ERROR
    /\ Get(heap, Unregistered) = ERROR

\* C2: immediately after SetLevel(m, l), IsEnabled(m, x) is true exactly for
\* the levels x at or above l in the order of severities; in particular it
\* is true for l and false for the next lower severity.
C2_EnabledFromThreshold ==
    (pc = "returned" /\ last.op = "SetLevel") =>
        /\ \A x \in Levels :
              isEnabled(heap, last.module, x) <=> Rank(x) >= Rank(last.level)
        /\ isEnabled(heap, last.module, last.level)
        /\ Rank(last.level) > 1 =>
              ~isEnabled(heap, last.module, LevelOrder[Rank(last.level) - 1])

\* SetLevel("a", PANIC) has just replaced the level DEBUG of "a"
C2_Witness ==
    /\ pc = "returned"
    /\ last.op = "SetLevel"
    /\ last.module = <<"a">>
    /\ last.level = PANIC
    /\ <<"a">> \in DOMAIN last.pre
    /\ last.pre[<<"a">>] = DEBUG

\* C7: when SetSpec returns an error the registry is what it was before
\* the call.
C7_FailedSetSpecChangesNothing ==
    (last.op = "SetSpec" /\ last.err # nil) => heap[LevelsRef] = last.pre

\* SetSpec("a=debug:b=bogus") has failed on its second part, with "a"
\* registered at another level before the call
C7_Witness ==
    /\ last.op = "SetSpec"
    /\ last.spec = <<"a", "=", "debug", ":", "b", "=", "bogus">>
    /\ last.err = ErrInvalidLevel
    /\ <<"a">> \in DOMAIN last.pre
    /\ last.pre[<<"a">>] = PANIC

\* the parts of a spec, and module and level of a part that holds "="
PartsOf(spec) == Split(spec, ":")
IsPair(part) == Contains(part, "=")
PairModule(part) == Split(part, "=")[1]
PairLevel(part) == ParseLevel(Split(part, "=")[2]).level

\* every module=level part of the spec is in force, the last one for a
\* repeated module
PairsInForce(spec) ==
    LET parts == PartsOf(spec)
    IN  \A i \in 1..Len(parts) :
            (/\ IsPair(parts[i])
             /\ \A j \in (i + 1)..Len(parts) :
                   IsPair(parts[j]) => PairModule(parts[j]) # PairModule(parts[i]))
            => Get(heap, PairModule(parts[i])) = PairLevel(parts[i])

\* the default is the level of the bare part, INFO if there is none
DefaultFromBare(spec) ==
    LET parts == PartsOf(spec)
    IN  IF \E i \in 1..Len(parts) : ~IsPair(parts[i])
        THEN \A i \in 1..Len(parts) :
                ~IsPair(parts[i]) =>
                    Get(heap, defaultModuleName) = ParseLevel(parts[i]).level
        ELSE Get(heap, defaultModuleName) = INFO

NamesDefaultModule(spec) ==
    \E i \in 1..Len(PartsOf(spec)) :
        IsPair(PartsOf(spec)[i]) /\ PairModule(PartsOf(spec)[i]) = defaultModuleName

\* C8 as stated: after SetSpec(spec) returns nil, every module=level part is
\* in force (the last one for a repeated module) and Get("") is the level of
\* the bare part, or INFO if the spec has none.
C8_AsStated ==
    (last.op = "SetSpec" /\ last.err = nil) =>
        PairsInForce(last.spec) /\ DefaultFromBare(last.spec)

\* C8: after SetSpec(spec) returns nil, every part that holds "=" is in force
\* as module=level (module: the text before the first "=", level: the text
\* up to the next "="), the last one for a repeated module; and unless such a
\* part has the empty module name, Get("") is the level of the bare part, or
\* INFO if the spec has none, whatever default was registered before.
C8_SetSpecApplied ==
    (last.op = "SetSpec" /\ last.err = nil) =>
        /\ PairsInForce(last.spec)
        /\ ~NamesDefaultModule(last.spec) => DefaultFromBare(last.spec)

\* SetSpec("a=debug:a=PANIC") has succeeded where the default was ERROR
C8_Witness ==
    /\ last.op = "SetSpec"
    /\ last.err = nil
    /\ last.spec = <<"a", "=", "debug", ":", "a", "=", "PANIC">>
    /\ defaultModuleName \in DOMAIN last.pre
    /\ last.pre[defaultModuleName] = ERROR
    /\ Get(heap, <<"a">>) = PANIC

\* C9 as stated: SetSpec(GetSpec()) succeeds and leaves the mapping All()
\* returns equal to the mapping before the call, in every registry state.
C9_RoundTrip ==
    (last.op = "SetSpec" /\ last.ofGetSpec) =>
        /\ last.err = nil
        /\ All(heap).heap[All(heap).ref] = last.pre

\* C10: while the caller holds the map All() returned, a step that changes
\* the registry leaves that map as it is, and a step that changes that map
\* leaves every result of Get as it is.
C10_SnapshotIndependent ==
    [][(pc = "returned" /\ last.op = "All" /\ pc' = "returned") =>
          /\ heap'[LevelsRef] # heap[LevelsRef] => heap'[snap] = heap[snap]
          /\ heap'[snap] # heap[snap] =>
                \A m \in Modules \cup {Unregistered} : Get(heap', m) = Get(heap, m)]_vars

\* a SetLevel after All() has made the registry differ from the map returned,
\* which still holds what the registry held when All() was called
C10_Witness ==
    /\ pc = "returned"
    /\ last.op = "All"
    /\ held > 0
    /\ last.pre # EmptyMap
    /\ heap[snap] = last.pre
    /\ heap[LevelsRef] # last.pre

\* C28: no step removes an entry of the registry; a SetLevel(m, l) step sets
\* the entry of m to l and leaves every other entry, and so Get of every
\* other module that has an entry, as it was; a SetDefaultLevel(l) step does
\* what Set("", l) does, and changes Get for no module other than "" that has
\* an entry of its own.
C28_SetChangesOneEntry ==
    /\ [][DOMAIN heap[LevelsRef] \subseteq DOMAIN heap'[LevelsRef]]_vars
    /\ [][pc = "idle" /\ last'.op = "SetLevel" =>
             /\ heap'[LevelsRef][last'.module] = last'.level
             /\ \A m \in DOMAIN heap[LevelsRef] \ {last'.module} :
                   /\ heap'[LevelsRef][m] = heap[LevelsRef][m]
                   /\ Get(heap', m) = Get(heap, m)]_vars
    /\ [][pc = "idle" /\ last'.op = "SetDefaultLevel" =>
             /\ heap' = Set(heap, defaultModuleName, last'.level)
             /\ \A m \in (Modules \cup {Unregistered}) \ {defaultModuleName} :
                   m \in DOMAIN heap[LevelsRef] => Get(heap', m) = Get(heap, m)
             /\ \A m \in (Modules \cup {Unregistered}) \ DOMAIN heap[LevelsRef] :
                   Get(heap', m) = last'.level]_vars

\* SetLevel has changed the level of "a" while "b" has an entry of its own
C28_Witness ==
    /\ last.op = "SetLevel"
    /\ last.module = <<"a">>
    /\ <<"a">> \in DOMAIN last.pre
    /\ last.pre[<<"a">>] # last.level
    /\ <<"b">> \in DOMAIN last.pre
    /\ heap[LevelsRef][<<"b">>] = last.pre[<<"b">>]
    /\ heap[LevelsRef][<<"b">>] # last.level

-----------------------------------------------------------------------------
(* ParseLevel and the case of its argument, checked under Spec *)

\* the level names and synonyms, in lower case
LevelNames ==
    {<<"debug">>, <<"info">>, <<"warn">>, <<"warning">>, <<"error">>, <<"panic">>,
     <<"fatal">>}

\* the Level a name or synonym stands for
LevelNamed(name) ==
    CASE name = <<"debug">> -> DEBUG
      [] name = <<"info">> -> INFO
      [] name \in {<<"warn">>, <<"warning">>} -> WARNING
      [] name = <<"error">> -> ERROR
      [] name = <<"panic">> -> PANIC
      [] name = <<"fatal">> -> FATAL

\* C11 as stated: ParseLevel takes every case variant of a level name or
\* synonym to the Level of that name, and returns an error for every other string.
C11_AsStated ==
    last.op = "ParseLevel" =>
        IF ToLower(last.spec) \in LevelNames
        THEN last.err = nil /\ last.level = LevelNamed(ToLower(last.spec))
        ELSE last.err # nil

\* C11, amended: ParseLevel takes a level name or synonym written entirely in
\* lower case or entirely in upper case to the Level of that name ("warn" and
\* "warning" to the same one), and returns an error for every other string,
\* a name in mixed case such as "Debug" included.
C11_ParseLevelTwoCases ==
    last.op = "ParseLevel" =>
        IF /\ ToLower(last.spec) \in LevelNames
           /\ last.spec \in {ToLower(last.spec), ToUpper(last.spec)}
        THEN last.err = nil /\ last.level = LevelNamed(ToLower(last.spec))
        ELSE last.err = ErrInvalidLevel

\* ParseLevel("Debug") has returned an error
C11_Witness ==
    /\ last.op = "ParseLevel"
    /\ last.spec = <<"Debug">>
    /\ last.err = ErrInvalidLevel

-----------------------------------------------------------------------------
(* Properties of the logger, checked under SpecLog *)

LowSeverity == {DEBUG, INFO, WARNING}
HighSeverity == {ERROR, PANIC, FATAL}

\* C4: a log call, plain or context-aware, at a level below the threshold
\* registered for the logger's module writes nothing to stdOut or stdErr.
C4_BelowThresholdWritesNothing ==
    (last.op = "Log" /\ Rank(last.level) < Rank(GetIn(last.pre, last.module))) =>
        stdOut = last.preOut /\ stdErr = last.preErr

\* Warnc on a logger whose module has no entry, with the default at ERROR
C4_Witness ==
    /\ last.op = "Log"
    /\ last.ctx
    /\ last.level = WARNING
    /\ last.module \notin DOMAIN last.pre
    /\ GetIn(last.pre, last.module) = ERROR
    /\ stdOut = <<>>
    /\ stdErr # <<>>

\* C5: a log call writes at most one record, to stdErr alone if the level is
\* ERROR, PANIC or FATAL and to stdOut alone if it is DEBUG, INFO or WARNING,
\* and only if the level is enabled for the module; the sinks never hold a
\* record of the other severity class.
C5_OneSinkPerRecord ==
    /\ \A i \in 1..Len(stdOut) : stdOut[i] \in LowSeverity
    /\ \A i \in 1..Len(stdErr) : stdErr[i] \in HighSeverity
    /\ last.op = "Log" =>
          LET on == Rank(last.level) >= Rank(GetIn(last.pre, last.module))
          IN  /\ stdOut = IF on /\ last.level \in LowSeverity
                          THEN Append(last.preOut, last.level)
                          ELSE last.preOut
              /\ stdErr = IF on /\ last.level \in HighSeverity
                          THEN Append(last.preErr, last.level)
                          ELSE last.preErr

\* a WARNING record went to stdOut after an ERROR record went to stdErr
C5_Witness ==
    /\ last.op = "Log"
    /\ last.level = WARNING
    /\ stdOut = <<WARNING>>
    /\ stdErr = <<ERROR>>

\* C6: a PANIC-level call always ends in a panic and a FATAL-level call
\* always ends the process, whatever threshold is registered for the module;
\* when the record is enabled it is written to stdErr first.
C6_PanicAndFatalAlwaysEscalate ==
    (last.op = "Log" /\ last.level \in {PANIC, FATAL}) =>
        LET on == Rank(last.level) >= Rank(GetIn(last.pre, last.module))
            end == IF last.level = PANIC THEN "panic" ELSE "exit"
        IN  /\ last.events = IF on THEN <<"stdErr", end>> ELSE <<end>>
            /\ last.level = FATAL <=> pc = "exited"

\* Panicc with the module's threshold at FATAL: nothing written, a panic
C6_Witness ==
    /\ last.op = "Log"
    /\ last.ctx
    /\ last.level = PANIC
    /\ GetIn(last.pre, last.module) = FATAL
    /\ last.events = <<"panic">>
    /\ stdErr = last.preErr

\* the threshold for module m by the latest SetLevel/SetDefaultLevel calls
\* that have completed: the level last set for m, else the level last set as
\* the default, else INFO
LatestThreshold(m) ==
    IF m \in DOMAIN setLog
    THEN setLog[m]
    ELSE IF defaultModuleName \in DOMAIN setLog
         THEN setLog[defaultModuleName]
         ELSE INFO

\* C24: every log call is gated by the threshold the latest completed
\* SetLevel or SetDefaultLevel gives the logger's module, however long ago the
\* logger was made and whether it was made by New or derived by With: the
\* call writes its record if and only if its level is at or above that
\* threshold.
C24_GatedByLatestSet ==
    last.op = "Log" =>
        /\ last.module = logger.module
        /\ (\E i \in 1..Len(last.events) : last.events[i] \in {"stdOut", "stdErr"})
              <=> Rank(last.level) >= Rank(LatestThreshold(last.module))

\* a logger derived by With wrote a DEBUG record after SetLevel lowered the
\* threshold of its module to DEBUG
C24_Witness ==
    /\ last.op = "Log"
    /\ logger.fields # {}
    /\ last.level = DEBUG
    /\ stdOut = <<DEBUG>>
    /\ last.module \in DOMAIN setLog
    /\ setLog[last.module] = DEBUG

\* the keys of the fields the latest log call added to its record
FieldKeys == {f.key : f \in last.fields}

\* the latest call was a log call that wrote its record to a sink
RecordWritten ==
    /\ last.op = "Log"
    /\ \E i \in 1..Len(last.events) : last.events[i] \in {"stdOut", "stdErr"}

\* C23: the record a log method with a context writes has none of trace_id,
\* span_id and parent_span_id when the context has no span, trace_id and
\* span_id only for a root span, and all three for a span with a parent; each
\* field is there exactly when its value is not all zeros, and holds that value.
C23_TracingFields ==
    RecordWritten /\ last.ctx =>
        /\ last.span = NoSpan => FieldKeys = {}
        /\ /\ last.span.traceID # nilTraceID
           /\ last.span.spanID # nilSpanID
           /\ last.span.parentSpanID = nilSpanID
           => FieldKeys = {"trace_id", "span_id"}
        /\ /\ last.span.traceID # nilTraceID
           /\ last.span.spanID # nilSpanID
           /\ last.span.parentSpanID # nilSpanID
           => FieldKeys = {"trace_id", "span_id", "parent_span_id"}
        /\ "trace_id" \in FieldKeys <=> last.span.traceID # nilTraceID
        /\ "span_id" \in FieldKeys <=> last.span.spanID # nilSpanID
        /\ "parent_span_id" \in FieldKeys <=> last.span.parentSpanID # nilSpanID
        /\ \A f \in last.fields :
              f.value = CASE f.key = "trace_id" -> last.span.traceID
                          [] f.key = "span_id" -> last.span.spanID
                          [] f.key = "parent_span_id" -> last.span.parentSpanID

\* Debugc wrote a record for a context whose span has a parent
C23_Witness ==
    /\ RecordWritten
    /\ last.ctx
    /\ last.level = DEBUG
    /\ last.span.parentSpanID = SpanID1
    /\ Cardinality(last.fields) = 3

-----------------------------------------------------------------------------
(* Concurrent use of the registry: one goroutine calls Set, one calls Get   *)
(* and one calls All, each again and again; every lock operation and every *)
(* access to the map is a step of its own.                                   *)

ConcLevels == {DEBUG, ERROR}

\* the whole process has died of a fault the Go runtime raised
Faulted == \E g \in DOMAIN gor : gor[g].pc = "fatal"

\* Set is between the first and the last write of its store into the map
Storing == gor["setter"].pc = "storing"

\* What a read of key k can give.  Outside a store: the entry, or "absent".
\* During a store the read races with it, which Go leaves undefined: the
\* read may see the map as before the store or as after it, or the runtime
\* may detect the race and end the process ("fatal").
ReadOutcomes(k) ==
    LET now == heap[LevelsRef]
        seen(map) == IF k \in DOMAIN map
                     THEN [kind |-> "level", level |-> map[k]]
                     ELSE [kind |-> "absent", level |-> defaultLevel]
    IN  IF Storing
        THEN {seen(now), seen(MapStore(now, gor["setter"].module, gor["setter"].level)),
              [kind |-> "fatal", level |-> defaultLevel]}
        ELSE {seen(now)}

\* Set: l.rwmutex.Lock()
SetLock(module, level) ==
    /\ ~Faulted
    /\ gor["setter"].pc = "idle"
    /\ ~rwmutex.writer /\ rwmutex.readers = 0
    /\ rwmutex' = [rwmutex EXCEPT !.writer = TRUE]
    /\ gor' = [gor EXCEPT !["setter"] =
                  [Idle EXCEPT !.pc = "store", !.module = module, !.level = level]]
    /\ UNCHANGED <<regVars, pc, last, logVars, cidVars, applying>>

\* Set: l.levels[module] = level begins
SetStoreBegin ==
    /\ ~Faulted
    /\ gor["setter"].pc = "store"
    /\ gor' = [gor EXCEPT !["setter"].pc = "storing"]
    /\ UNCHANGED <<regVars, pc, last, logVars, rwmutex, cidVars, applying>>

\* Set: l.levels[module] = level is done
SetStoreEnd ==
    /\ ~Faulted
    /\ gor["setter"].pc = "storing"
    /\ heap' = Set(heap, gor["setter"].module, gor["setter"].level)
    /\ gor' = [gor EXCEPT !["setter"].pc = "unlock"]
    /\ UNCHANGED <<setLog, snap, held, pc, last, logVars, rwmutex, cidVars, applying>>

\* Set: l.rwmutex.Unlock()
SetUnlock ==
    /\ ~Faulted
    /\ gor["setter"].pc = "unlock"
    /\ rwmutex' = [rwmutex EXCEPT !.writer = FALSE]
    /\ gor' = [gor EXCEPT !["setter"] = Idle]
    /\ UNCHANGED <<regVars, pc, last, logVars, cidVars, applying>>

\* Get: l.rwmutex.RLock()
GetRLock(module) ==
    /\ ~Faulted
    /\ gor["getter"].pc = "idle"
    /\ ~rwmutex.writer
    /\ rwmutex' = [rwmutex EXCEPT !.readers = @ + 1]
    /\ gor' = [gor EXCEPT !["getter"] = [Idle EXCEPT !.pc = "lookup", !.module = module]]
    /\ UNCHANGED <<regVars, pc, last, logVars, cidVars, applying>>

\* Get: level, exists := l.levels[module]
GetLookup ==
    /\ ~Faulted
    /\ gor["getter"].pc = "lookup"
    /\ \E v \in ReadOutcomes(gor["getter"].module) :
          gor' = [gor EXCEPT !["getter"].pc =
                      CASE v.kind = "fatal" -> "fatal"
                        [] v.kind = "absent" -> "lookupDefault"
                        [] OTHER -> "runlock",
                             !["getter"].level = v.level]
    /\ UNCHANGED <<regVars, pc, last, logVars, rwmutex, cidVars, applying>>

\* Get: level, exists = l.levels[defaultModuleName], else defaultLevel
GetLookupDefault ==
    /\ ~Faulted
    /\ gor["getter"].pc = "lookupDefault"
    /\ \E v \in ReadOutcomes(defaultModuleName) :
          gor' = [gor EXCEPT !["getter"].pc =
                                 IF v.kind = "fatal" THEN "fatal" ELSE "runlock",
                             !["getter"].level = v.level]
    /\ UNCHANGED <<regVars, pc, last, logVars, rwmutex, cidVars, applying>>

\* Get: the deferred l.rwmutex.RUnlock(), and the return
GetRUnlock ==
    /\ ~Faulted
    /\ gor["getter"].pc = "runlock"
    /\ rwmutex' = [rwmutex EXCEPT !.readers = @ - 1]
    /\ gor' = [gor EXCEPT !["getter"] = Idle]
    /\ UNCHANGED <<regVars, pc, last, logVars, cidVars, applying>>

\* All: l.rwmutex.RLock()
AllRLock ==
    /\ ~Faulted
    /\ gor["aller"].pc = "idle"
    /\ ~rwmutex.writer
    /\ rwmutex' = [rwmutex EXCEPT !.readers = @ + 1]
    /\ gor' = [gor EXCEPT !["aller"].pc = "takeRef"]
    /\ UNCHANGED <<regVars, pc, last, logVars, cidVars, applying>>

\* All: levels := l.levels, which copies the reference to the map, not the map
AllTakeRef ==
    /\ ~Faulted
    /\ gor["aller"].pc = "takeRef"
    /\ gor' = [gor EXCEPT !["aller"].pc = "runlock"]
    /\ UNCHANGED <<regVars, pc, last, logVars, rwmutex, cidVars, applying>>

\* All: l.rwmutex.RUnlock(); levelsCopy := make(map[string]Level); the range
\* loop over levels starts
AllRUnlock ==
    /\ ~Faulted
    /\ gor["aller"].pc = "runlock"
    /\ rwmutex' = [rwmutex EXCEPT !.readers = @ - 1]
    /\ gor' = [gor EXCEPT !["aller"].pc = "range",
                          !["aller"].must = DOMAIN heap[LevelsRef],
                          !["aller"].visited = {},
                          !["aller"].levelsCopy = EmptyMap]
    /\ UNCHANGED <<regVars, pc, last, logVars, cidVars, applying>>

\* the keys the range loop of All may visit next
RangeNext ==
    (DOMAIN heap[LevelsRef] \cup (IF Storing THEN {gor["setter"].module} ELSE {}))
    \ gor["aller"].visited

\* All: one iteration of the range loop: levelsCopy[module] = logLevel
AllRange ==
    /\ ~Faulted
    /\ gor["aller"].pc = "range"
    /\ \E k \in RangeNext :
          \E v \in ReadOutcomes(k) :
              gor' = [gor EXCEPT !["aller"].pc = IF v.kind = "fatal" THEN "fatal" ELSE @,
                                 !["aller"].visited = @ \cup {k},
                                 !["aller"].levelsCopy =
                                     IF v.kind = "level" THEN MapStore(@, k, v.level) ELSE @]
    /\ UNCHANGED <<regVars, pc, last, logVars, rwmutex, cidVars, applying>>

\* All: the range loop has visited every entry it had to; return levelsCopy
AllReturn ==
    /\ ~Faulted
    /\ gor["aller"].pc = "range"
    /\ gor["aller"].must \subseteq gor["aller"].visited
    /\ gor' = [gor EXCEPT !["aller"] = Idle]
    /\ UNCHANGED <<regVars, pc, last, logVars, rwmutex, cidVars, applying>>

NextConc ==
    \/ \E module \in Modules, level \in ConcLevels : SetLock(module, level)
    \/ SetStoreBegin
    \/ SetStoreEnd
    \/ SetUnlock
    \/ \E module \in Modules : GetRLock(module)
    \/ GetLookup
    \/ GetLookupDefault
    \/ GetRUnlock
    \/ AllRLock
    \/ AllTakeRef
    \/ AllRUnlock
    \/ AllRange
    \/ AllReturn

SpecConc == Init /\ [][NextConc]_vars

\* a goroutine whose next step reads the map
ReadsMapNext(g) ==
    \/ g = "getter" /\ gor[g].pc \in {"lookup", "lookupDefault"}
    \/ g = "aller" /\ gor[g].pc = "range" /\ RangeNext # {}

\* C3 as stated: no goroutine reads the module->level map while a Set is
\* writing it (every read, the iteration of All included, is made under the
\* read lock), and no read ends in anything but the level before or after
\* the Set: the runtime never faults on a racing access.
C3_NoReadWhileSetWrites ==
    /\ \A g \in DOMAIN gor : ReadsMapNext(g) => ~Storing
    /\ \A g \in DOMAIN gor : ReadsMapNext(g) => rwmutex.readers > 0
    /\ ~Faulted

====
